---- MODULE Spec2Model ----
(***************************************************************************)
(* A model of two subsystems of the build agent:                           *)
(*                                                                         *)
(*   - the process supervisor (package process: Process.Start, Done, Kill, *)
(*     signal, getExitStatus, timeoutWait), POSIX build, with the path of  *)
(*     the command's output: the copy task, the line pipe, the line        *)
(*     scanner and its callback tasks;                                     *)
(*   - the artifact upload pipeline (ArtifactUploader.upload), from the    *)
(*     choice of the uploader to the final error check.                    *)
(*                                                                         *)
(* Every goroutine is a program counter; one action is one atomic step of  *)
(* the code (a statement, or a critical section under a mutex).  A Go      *)
(* panic ends the whole program: it sets panicked, after which no step is  *)
(* taken.                                                                  *)
(***************************************************************************)
EXTENDS Integers, Sequences, FiniteSets, TLC

(* ---- bounds of the model ---- *)
NArtifacts == 3       \* artifacts registered for one upload()
PoolCapacity == 2     \* what pool.MaxConcurrencyLimit resolves to
MaxStarters == 2      \* goroutines that may call Start() on a shared handle
NKillers == 1         \* goroutines that call Kill()
NObservers == 1       \* goroutines that call Done()

Starters == 1..MaxStarters
Killers == 1..NKillers
Observers == 1..NObservers
Artifacts == 1..NArtifacts        \* an artifact is named by its backend id
Cmds == 1..MaxStarters            \* one exec.Cmd per Start() call
ExitCodes == {0, 255}             \* exit codes a child may report

VARIABLES
  \* ---- type Process (pipeline_upload.go:427-453) ----
  Pid,          \* p.Pid: 0, or the command whose pid was recorded
  PTY,          \* p.PTY
  ExitStatus,   \* p.ExitStatus: "" until set
  command,      \* p.command: 0 (nil), or the exec.Cmd last assigned
  running,      \* p.running (atomic int32, as a boolean)
  done,         \* p.done: 0 (nil), or the channel made
  \* ---- the Go runtime and the operating system ----
  chans,        \* number of channels made so far for p.done
  closedCh,     \* set of channels that have been closed
  panicked,     \* a goroutine panicked: the program is gone
  cmdState,     \* per exec.Cmd: "none", "unstarted", "running", "exited", "reaped"
  cmdWait,      \* per exec.Cmd: what Wait() reports once the child has exited
  ignoresTerm,  \* the child ignores SIGTERM
  ncmd,         \* number of exec.Cmd values created
  \* ---- goroutines inside Start() ----
  callers,      \* the goroutines that call Start() on this handle
  spc,          \* per caller: position in Start()
  sret,         \* per caller: what Start() returned
  waitResult,   \* per caller: the local waitResult
  copier,       \* per caller: the PTY copy goroutine
  scanner,      \* per caller: the line scanner goroutine
  pipeClosed,   \* per caller: lineWriterPipe has been closed
  dtimer,       \* per caller: the time.After of timeoutWait
  timeoutLogged,\* per caller: "Timed out waiting for wait group" was logged
  callbacks,    \* number of StartCallback goroutines launched
  pty,          \* per caller: the command whose output the caller captures
  \* ---- goroutines inside Kill() ----
  killers,      \* the goroutines that call Kill() on this handle
  kpc,          \* per killer: position in Kill()
  kerr,         \* per killer: the error Kill() returned
  kterm,        \* per killer: what signal(SIGTERM) did
  kkill,        \* per killer: what signal(SIGKILL) did
  ktimer,       \* per killer: the time.After(gracePeriod) of the select
  kdoneAtExpiry,\* per killer: whether done had fired when the grace timer fired
  \* ---- goroutines calling Done() ----
  obs           \* per observer: the channel Done() returned (0: not called)

pvars == <<Pid, PTY, ExitStatus, command, running, done, chans, closedCh,
           panicked, cmdState, cmdWait, ignoresTerm, ncmd, callers, spc, sret,
           waitResult, copier, scanner, pipeClosed, dtimer, timeoutLogged,
           callbacks, pty, killers, kpc, kerr, kterm, kkill, ktimer, kdoneAtExpiry, obs>>

VARIABLES
  \* ---- ArtifactUploader.upload (artifact_uploader.go:168-336) ----
  err,                    \* the one err variable shared by all goroutines
  errors,                 \* the errors slice, as the set of its appenders
  artifactStates,         \* map id -> state; "" where the id has no entry
  artifactStatesUploaded, \* the reporter's count of flushed states
  statesToUpload,         \* the reporter's current batch; "" where no entry
  batches,                \* every batch the reporter drained, in order
  updateCalls,            \* calls of Artifacts.Update made in the current retry.Do
  updated,                \* number of batches Artifacts.Update was called for
  updateFailed,           \* batches whose latest Artifacts.Update call failed
  rpc,                    \* the reporter goroutine's position
  rres,                   \* what the reporter's retry.Do returned
  mpc,                    \* the position of upload() itself
  spawned,                \* number of artifacts handed to p.Spawn
  wpc,                    \* per artifact: position of its pool task
  wok,                    \* per artifact: whether one of its attempts succeeded
  wtried,                 \* per artifact: whether its retry.Do has returned
  state                   \* per artifact: the task's local state variable

uvars == <<err, errors, artifactStates, artifactStatesUploaded, statesToUpload,
           batches, updateCalls, updated, updateFailed, rpc, rres, mpc, spawned, wpc, wok,
           wtried, state>>

VARIABLES
  \* ---- ArtifactUploader.upload before the pool exists (lines 168-205) ----
  Destination,  \* a.Destination
  uploader,     \* the local uploader: "nil" until one is selected
  uret          \* the error upload() returned early; "none" if it did not

evars == <<Destination, uploader, uret>>

VARIABLES
  \* ---- the output path of one Start() call (lines 483-640) ----
  Timestamp,    \* p.Timestamp
  out,          \* every byte the command writes before it exits
  copied,       \* number of bytes of out the copy task has read so far
  inflight,     \* bytes of the pending lineWriterPipe.Write not yet read
  cpc,          \* position of the task that copies the output to multiWriter
  buffer,       \* p.buffer
  rbuf,         \* unread bytes held by the bufio.Reader of the scanner
  delivered,    \* every byte the scanner's reader took from the line pipe
  appending,    \* the scanner's local appending
  lpc,          \* position of the line scanner goroutine
  processed,    \* the lines that reached line 605, in order
  tasks         \* the callback tasks dispatched at line 624, in order

lvars == <<Timestamp, out, copied, inflight, cpc, buffer, rbuf, delivered,
           appending, lpc, processed, tasks>>

VARIABLES
  \* ---- one call of retry.Do and the command around it ----
  use,          \* which call of retry.Do this is; "none" when there is none
  Replace,      \* cfg.Replace of the pipeline upload
  Pipeline,     \* the parsed pipeline (result) of the pipeline upload
  uuid,         \* the local uuid of the pipeline upload; 0 before line 215
  uuids,        \* number of UUIDs api.NewUUID has issued
  Attempt,      \* retry.Stats.Attempt: the number of the current attempt
  broken,       \* Break() was called on the retry.Stats
  rerr,         \* the error the last call of the operation returned
  rret,         \* what retry.Do returned; "none" before it returns
  sent,         \* the requests sent so far, in order
  replies,      \* the HTTP status answered to each request; 0: no response
  slept,        \* number of waits of one interval made by retry.Do
  qpc           \* position of the goroutine that calls retry.Do

rvars == <<use, Replace, Pipeline, uuid, uuids, Attempt, broken, rerr, rret,
           sent, replies, slept, qpc>>

VARIABLES
  \* ---- ArtifactUploader.Collect (artifact_uploader.go:69-135) ----
  Paths,        \* a.Paths
  wd,           \* the local wd
  rest,         \* the entries of the split a.Paths not yet looked at
  globPath,     \* the local globPath of the current round
  files,        \* the matches of globPath not yet processed
  artifacts,    \* the artifacts appended so far
  cret,         \* the error Collect returned; "none" before it returns
  gpc           \* position of Collect

avars == <<Paths, wd, rest, globPath, files, artifacts, cret, gpc>>

vars == <<pvars, uvars, evars, lvars, rvars, avars>>

(* ---- values ---- *)
NilResult == [kind |-> "nil", status |-> 0]
NoResult == [kind |-> "none", status |-> 0]
OtherError == [kind |-> "other", status |-> 0]
\* *exec.ExitError carrying a syscall.WaitStatus; status -1: killed by a signal
ExitError(n) == [kind |-> "ExitError", status |-> n]
WaitOf(code) == IF code = 0 THEN NilResult ELSE ExitError(code)

DoneFired == done # 0 /\ done \in closedCh

(***************************************************************************)
(* getExitStatus                                                           *)
(***************************************************************************)
\* getExitStatus without the extraction of the code from the wait status.
getExitStatusNoCode(w) ==
  LET exitStatus == IF w.kind = "nil" THEN 0 ELSE -1
  IN ToString(exitStatus)

getExitStatus(w) ==
  LET exitStatus == IF w.kind = "nil" THEN 0
                    ELSE IF w.kind = "ExitError" THEN w.status
                    ELSE -1
  IN ToString(exitStatus)

(***************************************************************************)
(* Initial states                                                          *)
(***************************************************************************)
InitProc(cs, ks) ==
  /\ Pid = 0
  /\ PTY \in BOOLEAN
  /\ ExitStatus = ""
  /\ command = 0
  /\ running = FALSE
  /\ done = 0
  /\ chans = 0
  /\ closedCh = {}
  /\ panicked = FALSE
  /\ cmdState = [c \in Cmds |-> "none"]
  /\ cmdWait = [c \in Cmds |-> NoResult]
  /\ ignoresTerm \in BOOLEAN
  /\ ncmd = 0
  /\ callers = cs
  /\ spc = [s \in Starters |-> "idle"]
  /\ sret = [s \in Starters |-> "none"]
  /\ waitResult = [s \in Starters |-> NoResult]
  /\ copier = [s \in Starters |-> "none"]
  /\ scanner = [s \in Starters |-> "none"]
  /\ pipeClosed = [s \in Starters |-> FALSE]
  /\ dtimer = [s \in Starters |-> "off"]
  /\ timeoutLogged = [s \in Starters |-> FALSE]
  /\ callbacks = 0
  /\ pty = [s \in Starters |-> 0]
  /\ killers = ks
  /\ kpc = [k \in Killers |-> "idle"]
  /\ kerr = [k \in Killers |-> "none"]
  /\ kterm = [k \in Killers |-> "none"]
  /\ kkill = [k \in Killers |-> "none"]
  /\ ktimer = [k \in Killers |-> "off"]
  /\ kdoneAtExpiry = [k \in Killers |-> FALSE]
  /\ obs = [o \in Observers |-> 0]

NilBytes == <<"nil">>   \* a nil []byte, which differs from an empty one

\* The output path when the output is not looked at: the command writes
\* nothing.
InitScanIdle ==
  /\ Timestamp = FALSE
  /\ out = <<>>
  /\ copied = 0
  /\ inflight = <<>>
  /\ cpc = "read"
  /\ buffer = <<>>
  /\ rbuf = <<>>
  /\ delivered = <<>>
  /\ appending = NilBytes
  /\ lpc = "read"
  /\ processed = <<>>
  /\ tasks = <<>>

\* No call of retry.Do is looked at.
InitRetryIdle ==
  /\ use = "none"
  /\ Replace = FALSE
  /\ Pipeline = ""
  /\ uuid = 0
  /\ uuids = 0
  /\ Attempt = 1
  /\ broken = FALSE
  /\ rerr = "nil"
  /\ rret = "none"
  /\ sent = <<>>
  /\ replies = <<>>
  /\ slept = 0
  /\ qpc = "idle"

\* Collect is not called.
InitCollectIdle ==
  /\ Paths = <<>>
  /\ wd = <<>>
  /\ rest = <<>>
  /\ globPath = <<>>
  /\ files = <<>>
  /\ artifacts = <<>>
  /\ cret = "none"
  /\ gpc = "idle"

\* The process supervisor when no goroutine uses the handle.
InitProcIdle ==
  InitProc({}, {}) /\ PTY = FALSE /\ ignoresTerm = FALSE /\ InitScanIdle

\* upload() after the batch registration (line 205): the pool, the error
\* list, the state map and its counter are fresh (lines 208-220), the
\* reporter goroutine is about to evaluate its loop condition (line 225).
InitUpload ==
  /\ err = "nil"
  /\ errors = {}
  /\ artifactStates = [a \in Artifacts |-> ""]
  /\ artifactStatesUploaded = 0
  /\ statesToUpload = [a \in Artifacts |-> ""]
  /\ batches = <<>>
  /\ updateCalls = 0
  /\ updated = 0
  /\ updateFailed = {}
  /\ rpc = "loop"
  /\ rres = "nil"
  /\ mpc = "spawn"
  /\ spawned = 0
  /\ wpc = [a \in Artifacts |-> "queued"]
  /\ wok = [a \in Artifacts |-> FALSE]
  /\ wtried = [a \in Artifacts |-> FALSE]
  /\ state = [a \in Artifacts |-> ""]
  /\ Destination = <<>>
  /\ uploader = "FormUploader"
  /\ uret = "none"

\* Values of a.Destination, as sequences of characters.
Destinations ==
  { <<>>,
    <<"s", "3", ":", "/", "/", "b">>,
    <<"g", "s", ":", "/", "/", "b">>,
    <<"s", "3", ":", "/", "b">>,
    <<"/", "t", "m", "p">> }

\* upload() at its first statement (line 169): no uploader is selected, the
\* pool, the error list, the state map and the reporter do not exist yet.
InitUploadEntry ==
  /\ Destination \in Destinations
  /\ uploader = "nil"
  /\ uret = "none"
  /\ err = "nil"
  /\ errors = {}
  /\ artifactStates = [a \in Artifacts |-> ""]
  /\ artifactStatesUploaded = 0
  /\ statesToUpload = [a \in Artifacts |-> ""]
  /\ batches = <<>>
  /\ updateCalls = 0
  /\ updated = 0
  /\ updateFailed = {}
  /\ rpc = "unstarted"
  /\ rres = "nil"
  /\ mpc = "select"
  /\ spawned = 0
  /\ wpc = [a \in Artifacts |-> "queued"]
  /\ wok = [a \in Artifacts |-> FALSE]
  /\ wtried = [a \in Artifacts |-> FALSE]
  /\ state = [a \in Artifacts |-> ""]

\* upload() is not running.
InitUploadIdle == InitUpload

cfgVars == <<PTY, ignoresTerm, callers, killers>>
chanVars == <<done, chans, closedCh>>
osVars == <<cmdState, cmdWait, ncmd>>
taskVars == <<copier, scanner, pipeClosed, dtimer, timeoutLogged, callbacks, pty>>
killVars == <<kpc, kerr, kterm, kkill, ktimer, kdoneAtExpiry>>

(***************************************************************************)
(* Process.Start                                                           *)
(***************************************************************************)
\* Lines 461-464: Start() returns an error if the running flag is set.
StartCheck(s) ==
  /\ ~panicked
  /\ s \in callers
  /\ spc[s] = "idle"
  /\ IF running
     THEN /\ spc' = [spc EXCEPT ![s] = "returned"]
          /\ sret' = [sret EXCEPT ![s] = "AlreadyRunning"]
     ELSE /\ spc' = [spc EXCEPT ![s] = "command"]
          /\ UNCHANGED sret
  /\ UNCHANGED <<Pid, ExitStatus, command, running, chanVars, panicked,
                 osVars, cfgVars, waitResult, taskVars, killVars, obs>>
  /\ UNCHANGED <<uvars, evars, lvars, rvars, avars>>

\* Line 466: p.command = exec.Command(...), a new command that is not started.
StartCommand(s) ==
  /\ ~panicked
  /\ spc[s] = "command"
  /\ ncmd' = ncmd + 1
  /\ command' = ncmd + 1
  /\ cmdState' = [cmdState EXCEPT ![ncmd + 1] = "unstarted"]
  /\ spc' = [spc EXCEPT ![s] = "arm"]
  /\ UNCHANGED <<Pid, ExitStatus, running, chanVars, panicked, cmdWait,
                 cfgVars, sret, waitResult, taskVars, killVars, obs>>
  /\ UNCHANGED <<uvars, evars, lvars, rvars, avars>>

\* Lines 470-474: make the done channel unless Done() already made it.
StartArm(s) ==
  /\ ~panicked
  /\ spc[s] = "arm"
  /\ IF done = 0
     THEN /\ done' = chans + 1
          /\ chans' = chans + 1
     ELSE UNCHANGED <<done, chans>>
  /\ spc' = [spc EXCEPT ![s] = "spawn"]
  /\ UNCHANGED <<Pid, ExitStatus, command, running, closedCh, panicked,
                 osVars, cfgVars, sret, waitResult, taskVars, killVars, obs>>
  /\ UNCHANGED <<uvars, evars, lvars, rvars, avars>>

\* StartSpawn with the running flag set before the spawn is tried.
StartSpawnRunningFirst(s) ==
  /\ ~panicked
  /\ spc[s] = "spawn"
  /\ running' = TRUE
  /\ \E ok \in BOOLEAN :
       IF ok /\ cmdState[command] = "unstarted"
       THEN /\ cmdState' = [cmdState EXCEPT ![command] = "running"]
            /\ Pid' = command
            /\ pty' = [pty EXCEPT ![s] = command]
            /\ copier' = [copier EXCEPT ![s] = IF PTY THEN "running" ELSE "none"]
            /\ scanner' = [scanner EXCEPT ![s] = "running"]
            /\ callbacks' = callbacks + 1
            /\ spc' = [spc EXCEPT ![s] = "wait"]
            /\ UNCHANGED <<ExitStatus, sret>>
       ELSE /\ ExitStatus' = "1"
            /\ sret' = [sret EXCEPT ![s] = "SpawnErr"]
            /\ spc' = [spc EXCEPT ![s] = "returned"]
            /\ UNCHANGED <<Pid, cmdState, pty, copier, scanner, callbacks>>
  /\ UNCHANGED <<command, chanVars, panicked, cmdWait, ncmd, cfgVars,
                 waitResult, pipeClosed, dtimer, timeoutLogged, killVars, obs>>
  /\ UNCHANGED <<uvars, evars, lvars, rvars, avars>>

\* StartSpawn with the start callback launched before the spawn is tried.
StartSpawnCallbackFirst(s) ==
  /\ ~panicked
  /\ spc[s] = "spawn"
  /\ callbacks' = callbacks + 1
  /\ \E ok \in BOOLEAN :
       IF ok /\ cmdState[command] = "unstarted"
       THEN /\ cmdState' = [cmdState EXCEPT ![command] = "running"]
            /\ Pid' = command
            /\ running' = TRUE
            /\ pty' = [pty EXCEPT ![s] = command]
            /\ copier' = [copier EXCEPT ![s] = IF PTY THEN "running" ELSE "none"]
            /\ scanner' = [scanner EXCEPT ![s] = "running"]
            /\ spc' = [spc EXCEPT ![s] = "wait"]
            /\ UNCHANGED <<ExitStatus, sret>>
       ELSE /\ ExitStatus' = "1"
            /\ sret' = [sret EXCEPT ![s] = "SpawnErr"]
            /\ spc' = [spc EXCEPT ![s] = "returned"]
            /\ UNCHANGED <<Pid, running, cmdState, pty, copier, scanner>>
  /\ UNCHANGED <<command, chanVars, panicked, cmdWait, ncmd, cfgVars,
                 waitResult, pipeClosed, dtimer, timeoutLogged, killVars, obs>>
  /\ UNCHANGED <<uvars, evars, lvars, rvars, avars>>

\* Lines 485-547 and 643: spawn p.command (StartPTY or command.Start), record
\* the pid, set the running flag, launch the copy goroutine (PTY mode), the
\* line scanner and the start callback.  Starting an exec.Cmd a second time
\* fails ("exec: already started").
StartSpawn(s) ==
  /\ ~panicked
  /\ spc[s] = "spawn"
  /\ \E ok \in BOOLEAN :
       IF ok /\ cmdState[command] = "unstarted"
       THEN /\ cmdState' = [cmdState EXCEPT ![command] = "running"]
            /\ Pid' = command
            /\ running' = TRUE
            /\ pty' = [pty EXCEPT ![s] = command]
            /\ copier' = [copier EXCEPT ![s] = IF PTY THEN "running" ELSE "none"]
            /\ scanner' = [scanner EXCEPT ![s] = "running"]
            /\ callbacks' = callbacks + 1
            /\ spc' = [spc EXCEPT ![s] = "wait"]
            /\ UNCHANGED <<ExitStatus, sret>>
       ELSE /\ ExitStatus' = "1"
            /\ sret' = [sret EXCEPT ![s] = "SpawnErr"]
            /\ spc' = [spc EXCEPT ![s] = "returned"]
            /\ UNCHANGED <<Pid, running, cmdState, pty, copier, scanner, callbacks>>
  /\ UNCHANGED <<command, chanVars, panicked, cmdWait, ncmd, cfgVars,
                 waitResult, pipeClosed, dtimer, timeoutLogged, killVars, obs>>
  /\ UNCHANGED <<uvars, evars, lvars, rvars, avars>>

\* Line 647: p.command.Wait() blocks until the child has exited and reaps it.
\* Wait on a command that was never started, or was already waited for, is
\* an error that is not an *exec.ExitError.
StartWait(s) ==
  /\ ~panicked
  /\ spc[s] = "wait"
  /\ cmdState[command] # "running"
  /\ IF cmdState[command] = "exited"
     THEN /\ waitResult' = [waitResult EXCEPT ![s] = cmdWait[command]]
          /\ cmdState' = [cmdState EXCEPT ![command] = "reaped"]
     ELSE /\ waitResult' = [waitResult EXCEPT ![s] = OtherError]
          /\ UNCHANGED cmdState
  /\ spc' = [spc EXCEPT ![s] = "close"]
  /\ UNCHANGED <<Pid, ExitStatus, command, running, chanVars, panicked,
                 cmdWait, ncmd, cfgVars, sret, taskVars, killVars, obs>>
  /\ UNCHANGED <<uvars, evars, lvars, rvars, avars>>

\* Lines 650-653: lineWriterPipe.Close(), then setRunning(false).
StartClosePipe(s) ==
  /\ ~panicked
  /\ spc[s] = "close"
  /\ pipeClosed' = [pipeClosed EXCEPT ![s] = TRUE]
  /\ running' = FALSE
  /\ spc' = [spc EXCEPT ![s] = "closedone"]
  /\ UNCHANGED <<Pid, ExitStatus, command, chanVars, panicked, osVars,
                 cfgVars, sret, waitResult, copier, scanner, dtimer,
                 timeoutLogged, callbacks, pty, killVars, obs>>
  /\ UNCHANGED <<uvars, evars, lvars, rvars, avars>>

\* Line 656: close(p.done).  Closing a closed channel panics.  A Kill()
\* parked in its select on this channel is woken with the done case.
StartCloseDone(s) ==
  /\ ~panicked
  /\ spc[s] = "closedone"
  /\ IF done \in closedCh
     THEN /\ panicked' = TRUE
          /\ UNCHANGED <<closedCh, kpc, spc>>
     ELSE /\ closedCh' = closedCh \cup {done}
          /\ kpc' = [k \in Killers |->
                       IF kpc[k] = "parked" THEN "doneCase" ELSE kpc[k]]
          /\ spc' = [spc EXCEPT ![s] = "status"]
          /\ UNCHANGED panicked
  /\ UNCHANGED <<Pid, ExitStatus, command, running, done, chans, osVars,
                 cfgVars, sret, waitResult, taskVars, kerr, kterm, kkill,
                 ktimer, kdoneAtExpiry, obs>>
  /\ UNCHANGED <<uvars, evars, lvars, rvars, avars>>

\* Line 659: p.ExitStatus = getExitStatus(waitResult).
StartExitStatus(s) ==
  /\ ~panicked
  /\ spc[s] = "status"
  /\ ExitStatus' = getExitStatus(waitResult[s])
  /\ spc' = [spc EXCEPT ![s] = "timeoutWait"]
  /\ UNCHANGED <<Pid, command, running, chanVars, panicked, osVars, cfgVars,
                 sret, waitResult, taskVars, killVars, obs>>
  /\ UNCHANGED <<uvars, evars, lvars, rvars, avars>>

\* Lines 666, 781-790: timeoutWait starts its waiter goroutine and enters the
\* select, which arms the one time.After(10 * time.Second).
StartTimeoutWait(s) ==
  /\ ~panicked
  /\ spc[s] = "timeoutWait"
  /\ dtimer' = [dtimer EXCEPT ![s] = "armed"]
  /\ spc' = [spc EXCEPT ![s] = "draining"]
  /\ UNCHANGED <<Pid, ExitStatus, command, running, chanVars, panicked,
                 osVars, cfgVars, sret, waitResult, copier, scanner,
                 pipeClosed, timeoutLogged, callbacks, pty, killVars, obs>>
  /\ UNCHANGED <<uvars, evars, lvars, rvars, avars>>

\* The 10 second timer of timeoutWait fires.
DrainTimerFire(s) ==
  /\ ~panicked
  /\ spc[s] = "draining"
  /\ dtimer[s] = "armed"
  /\ dtimer' = [dtimer EXCEPT ![s] = "fired"]
  /\ UNCHANGED <<Pid, ExitStatus, command, running, chanVars, panicked,
                 osVars, cfgVars, spc, sret, waitResult, copier, scanner,
                 pipeClosed, timeoutLogged, callbacks, pty, killVars, obs>>
  /\ UNCHANGED <<uvars, evars, lvars, rvars, avars>>

\* Lines 792-793, 667-672: the wait group drained; Start returns nil.
StartDrainDone(s) ==
  /\ ~panicked
  /\ spc[s] = "draining"
  /\ copier[s] # "running"
  /\ scanner[s] # "running"
  /\ sret' = [sret EXCEPT ![s] = "nil"]
  /\ spc' = [spc EXCEPT ![s] = "returned"]
  /\ UNCHANGED <<Pid, ExitStatus, command, running, chanVars, panicked,
                 osVars, cfgVars, waitResult, taskVars, killVars, obs>>
  /\ UNCHANGED <<uvars, evars, lvars, rvars, avars>>

\* StartDrainTimeout that starts a new timer instead of giving up.
StartDrainTimeoutRenew(s) ==
  /\ ~panicked
  /\ spc[s] = "draining"
  /\ dtimer[s] = "fired"
  /\ dtimer' = [dtimer EXCEPT ![s] = "armed"]
  /\ UNCHANGED <<Pid, ExitStatus, command, running, chanVars, panicked,
                 osVars, cfgVars, spc, sret, waitResult, copier, scanner,
                 pipeClosed, timeoutLogged, callbacks, pty, killVars, obs>>
  /\ UNCHANGED <<uvars, evars, lvars, rvars, avars>>

\* Lines 794-795, 667-672: the timer fired first; the timeout is logged and
\* Start returns nil.
StartDrainTimeout(s) ==
  /\ ~panicked
  /\ spc[s] = "draining"
  /\ dtimer[s] = "fired"
  /\ timeoutLogged' = [timeoutLogged EXCEPT ![s] = TRUE]
  /\ sret' = [sret EXCEPT ![s] = "nil"]
  /\ spc' = [spc EXCEPT ![s] = "returned"]
  /\ UNCHANGED <<Pid, ExitStatus, command, running, chanVars, panicked,
                 osVars, cfgVars, waitResult, copier, scanner, pipeClosed,
                 dtimer, callbacks, pty, killVars, obs>>
  /\ UNCHANGED <<uvars, evars, lvars, rvars, avars>>

\* Lines 507-528: the PTY copy goroutine ends when io.Copy returns: the PTY
\* reported end of session, or a write to the closed line pipe failed.  It
\* may also never end.
CopierFinish(s) ==
  /\ ~panicked
  /\ copier[s] = "running"
  /\ cmdState[pty[s]] \in {"exited", "reaped"} \/ pipeClosed[s]
  /\ copier' = [copier EXCEPT ![s] = "finished"]
  /\ UNCHANGED <<Pid, ExitStatus, command, running, chanVars, panicked,
                 osVars, cfgVars, spc, sret, waitResult, scanner, pipeClosed,
                 dtimer, timeoutLogged, callbacks, pty, killVars, obs>>
  /\ UNCHANGED <<uvars, evars, lvars, rvars, avars>>

\* Lines 549-640: the line scanner goroutine ends after it read EOF from the
\* line pipe and its callbacks finished.  It may also never end.
ScannerFinish(s) ==
  /\ ~panicked
  /\ scanner[s] = "running"
  /\ pipeClosed[s]
  /\ scanner' = [scanner EXCEPT ![s] = "finished"]
  /\ UNCHANGED <<Pid, ExitStatus, command, running, chanVars, panicked,
                 osVars, cfgVars, spc, sret, waitResult, copier, pipeClosed,
                 dtimer, timeoutLogged, callbacks, pty, killVars, obs>>
  /\ UNCHANGED <<uvars, evars, lvars, rvars, avars>>

\* The child exits of its own accord with some exit code.
ChildExit(c) ==
  /\ ~panicked
  /\ cmdState[c] = "running"
  /\ \E code \in ExitCodes :
       cmdWait' = [cmdWait EXCEPT ![c] = WaitOf(code)]
  /\ cmdState' = [cmdState EXCEPT ![c] = "exited"]
  /\ UNCHANGED <<Pid, ExitStatus, command, running, chanVars, panicked, ncmd,
                 cfgVars, spc, sret, waitResult, taskVars, killVars, obs>>
  /\ UNCHANGED <<uvars, evars, lvars, rvars, avars>>

(***************************************************************************)
(* Process.Done                                                            *)
(***************************************************************************)
\* Lines 681-690.
DoneCall(o) ==
  /\ ~panicked
  /\ obs[o] = 0
  /\ IF done = 0
     THEN /\ done' = chans + 1
          /\ chans' = chans + 1
     ELSE UNCHANGED <<done, chans>>
  /\ obs' = [obs EXCEPT ![o] = done']
  /\ UNCHANGED <<Pid, ExitStatus, command, running, closedCh, panicked,
                 osVars, cfgVars, spc, sret, waitResult, taskVars, killVars>>
  /\ UNCHANGED <<uvars, evars, lvars, rvars, avars>>

(***************************************************************************)
(* Process.signal and Process.Kill                                         *)
(***************************************************************************)
\* Line 727: p.command != nil && p.command.Process != nil.
HasProcess == command # 0 /\ cmdState[command] \notin {"none", "unstarted"}

\* Lines 727-734: Process.Signal fails on a process that Wait() has reaped
\* ("os: process already finished"); otherwise the kernel may refuse it.
CanDeliver(ok) == ok /\ cmdState[command] # "reaped"

\* The effect of a delivered signal on the child.
Deliver(sig) ==
  IF cmdState[command] = "running" /\ (sig = "SIGKILL" \/ ~ignoresTerm)
  THEN /\ cmdState' = [cmdState EXCEPT ![command] = "exited"]
       /\ cmdWait' = [cmdWait EXCEPT ![command] = ExitError(-1)]
  ELSE UNCHANGED <<cmdState, cmdWait>>

\* Lines 694-706 (POSIX): p.signal(SIGTERM); an error is returned at once.
KillTerm(k) ==
  /\ ~panicked
  /\ k \in killers
  /\ kpc[k] = "idle"
  /\ IF ~HasProcess
     THEN /\ kterm' = [kterm EXCEPT ![k] = "noop"]
          /\ kpc' = [kpc EXCEPT ![k] = "select"]
          /\ UNCHANGED <<cmdState, cmdWait, kerr>>
     ELSE \E ok \in BOOLEAN :
            IF CanDeliver(ok)
            THEN /\ kterm' = [kterm EXCEPT ![k] = "delivered"]
                 /\ Deliver("SIGTERM")
                 /\ kpc' = [kpc EXCEPT ![k] = "select"]
                 /\ UNCHANGED kerr
            ELSE /\ kterm' = [kterm EXCEPT ![k] = "failed"]
                 /\ kerr' = [kerr EXCEPT ![k] = "SignalErr"]
                 /\ kpc' = [kpc EXCEPT ![k] = "returned"]
                 /\ UNCHANGED <<cmdState, cmdWait>>
  /\ UNCHANGED <<Pid, ExitStatus, command, running, chanVars, panicked, ncmd,
                 cfgVars, spc, sret, waitResult, taskVars, kkill, ktimer,
                 kdoneAtExpiry, obs>>
  /\ UNCHANGED <<uvars, evars, lvars, rvars, avars>>

\* KillSelect with a select that does not poll the done channel on entry.
KillSelectBlind(k) ==
  /\ ~panicked
  /\ kpc[k] = "select"
  /\ IF done = 0
     THEN /\ done' = chans + 1
          /\ chans' = chans + 1
     ELSE UNCHANGED <<done, chans>>
  /\ ktimer' = [ktimer EXCEPT ![k] = "armed"]
  /\ kpc' = [kpc EXCEPT ![k] = "parked"]
  /\ UNCHANGED <<Pid, ExitStatus, command, running, closedCh, panicked,
                 osVars, cfgVars, spc, sret, waitResult, taskVars, kerr,
                 kterm, kkill, kdoneAtExpiry, obs>>
  /\ UNCHANGED <<uvars, evars, lvars, rvars, avars>>

\* KillSelect with a select that has no time.After(gracePeriod) case.
KillSelectNoTimer(k) ==
  /\ ~panicked
  /\ kpc[k] = "select"
  /\ IF done = 0
     THEN /\ done' = chans + 1
          /\ chans' = chans + 1
     ELSE UNCHANGED <<done, chans>>
  /\ kpc' = [kpc EXCEPT ![k] = IF DoneFired THEN "doneCase" ELSE "parked"]
  /\ UNCHANGED <<Pid, ExitStatus, command, running, closedCh, panicked,
                 osVars, cfgVars, spc, sret, waitResult, taskVars, kerr,
                 kterm, kkill, ktimer, kdoneAtExpiry, obs>>
  /\ UNCHANGED <<uvars, evars, lvars, rvars, avars>>

\* Lines 708-714, entering the select: p.Done() is evaluated (making the
\* channel if there is none) and time.After(gracePeriod) arms the timer.
\* If done is already closed its case runs; otherwise the goroutine parks
\* until the first of the two events wakes it.
KillSelect(k) ==
  /\ ~panicked
  /\ kpc[k] = "select"
  /\ IF done = 0
     THEN /\ done' = chans + 1
          /\ chans' = chans + 1
     ELSE UNCHANGED <<done, chans>>
  /\ ktimer' = [ktimer EXCEPT ![k] = "armed"]
  /\ kpc' = [kpc EXCEPT ![k] = IF DoneFired THEN "doneCase" ELSE "parked"]
  /\ UNCHANGED <<Pid, ExitStatus, command, running, closedCh, panicked,
                 osVars, cfgVars, spc, sret, waitResult, taskVars, kerr,
                 kterm, kkill, kdoneAtExpiry, obs>>
  /\ UNCHANGED <<uvars, evars, lvars, rvars, avars>>

\* gracePeriod elapses: the timer fires and wakes the select if it is parked.
GraceExpire(k) ==
  /\ ~panicked
  /\ ktimer[k] = "armed"
  /\ kpc[k] \in {"parked", "doneCase"}
  /\ ktimer' = [ktimer EXCEPT ![k] = "fired"]
  /\ kdoneAtExpiry' = [kdoneAtExpiry EXCEPT ![k] = DoneFired]
  /\ kpc' = [kpc EXCEPT ![k] = IF kpc[k] = "parked" THEN "timeoutCase" ELSE kpc[k]]
  /\ UNCHANGED <<Pid, ExitStatus, command, running, chanVars, panicked,
                 osVars, cfgVars, spc, sret, waitResult, taskVars, kerr,
                 kterm, kkill, obs>>
  /\ UNCHANGED <<uvars, evars, lvars, rvars, avars>>

\* Lines 710-711, 720: the done case only logs; Kill returns nil.
KillDoneCase(k) ==
  /\ ~panicked
  /\ kpc[k] = "doneCase"
  /\ kerr' = [kerr EXCEPT ![k] = "nil"]
  /\ kpc' = [kpc EXCEPT ![k] = "returned"]
  /\ UNCHANGED <<Pid, ExitStatus, command, running, chanVars, panicked,
                 osVars, cfgVars, spc, sret, waitResult, taskVars, kterm,
                 kkill, ktimer, kdoneAtExpiry, obs>>
  /\ UNCHANGED <<uvars, evars, lvars, rvars, avars>>

\* KillTimeoutCase returning an error for the timeout itself.
KillTimeoutCaseErr(k) ==
  /\ ~panicked
  /\ kpc[k] = "timeoutCase"
  /\ IF HasProcess /\ cmdState[command] # "reaped"
     THEN /\ kkill' = [kkill EXCEPT ![k] = "delivered"]
          /\ Deliver("SIGKILL")
     ELSE /\ kkill' = [kkill EXCEPT ![k] = "noop"]
          /\ UNCHANGED <<cmdState, cmdWait>>
  /\ kerr' = [kerr EXCEPT ![k] = "SignalErr"]
  /\ kpc' = [kpc EXCEPT ![k] = "returned"]
  /\ UNCHANGED <<Pid, ExitStatus, command, running, chanVars, panicked, ncmd,
                 cfgVars, spc, sret, waitResult, taskVars, kterm, ktimer,
                 kdoneAtExpiry, obs>>
  /\ UNCHANGED <<uvars, evars, lvars, rvars, avars>>

\* Lines 714-720: the timeout case sends SIGKILL; Kill returns the error of
\* p.signal, nil if there was none.
KillTimeoutCase(k) ==
  /\ ~panicked
  /\ kpc[k] = "timeoutCase"
  /\ IF ~HasProcess
     THEN /\ kkill' = [kkill EXCEPT ![k] = "noop"]
          /\ kerr' = [kerr EXCEPT ![k] = "nil"]
          /\ UNCHANGED <<cmdState, cmdWait>>
     ELSE \E ok \in BOOLEAN :
            IF CanDeliver(ok)
            THEN /\ kkill' = [kkill EXCEPT ![k] = "delivered"]
                 /\ Deliver("SIGKILL")
                 /\ kerr' = [kerr EXCEPT ![k] = "nil"]
            ELSE /\ kkill' = [kkill EXCEPT ![k] = "failed"]
                 /\ kerr' = [kerr EXCEPT ![k] = "SignalErr"]
                 /\ UNCHANGED <<cmdState, cmdWait>>
  /\ kpc' = [kpc EXCEPT ![k] = "returned"]
  /\ UNCHANGED <<Pid, ExitStatus, command, running, chanVars, panicked, ncmd,
                 cfgVars, spc, sret, waitResult, taskVars, kterm, ktimer,
                 kdoneAtExpiry, obs>>
  /\ UNCHANGED <<uvars, evars, lvars, rvars, avars>>

(***************************************************************************)
(* Specifications of the process supervisor                                *)
(***************************************************************************)
NextProc ==
  \/ \E s \in Starters : StartCheck(s)
  \/ \E s \in Starters : StartCommand(s)
  \/ \E s \in Starters : StartArm(s)
  \/ \E s \in Starters : StartSpawn(s)
  \/ \E s \in Starters : StartWait(s)
  \/ \E s \in Starters : StartClosePipe(s)
  \/ \E s \in Starters : StartCloseDone(s)
  \/ \E s \in Starters : StartExitStatus(s)
  \/ \E s \in Starters : StartTimeoutWait(s)
  \/ \E s \in Starters : DrainTimerFire(s)
  \/ \E s \in Starters : StartDrainDone(s)
  \/ \E s \in Starters : StartDrainTimeout(s)
  \/ \E s \in Starters : CopierFinish(s)
  \/ \E s \in Starters : ScannerFinish(s)
  \/ \E c \in Cmds : ChildExit(c)
  \/ \E k \in Killers : KillTerm(k)
  \/ \E k \in Killers : KillSelect(k)
  \/ \E k \in Killers : GraceExpire(k)
  \/ \E k \in Killers : KillDoneCase(k)
  \/ \E k \in Killers : KillTimeoutCase(k)
  \/ \E o \in Observers : DoneCall(o)

\* One handle runs one command: a single goroutine calls Start() once, while
\* any number of goroutines call Kill() and Done().
InitProcess ==
  InitProc({1}, Killers) /\ InitUploadIdle /\ InitScanIdle /\ InitRetryIdle
  /\ InitCollectIdle
SpecProcess == InitProcess /\ [][NextProc]_vars

\* A shared handle: several goroutines call Start(), in sequence or at once.
InitHandle ==
  InitProc(Starters, {1}) /\ InitUploadIdle /\ InitScanIdle /\ InitRetryIdle
  /\ InitCollectIdle
SpecHandle == InitHandle /\ [][NextProc]_vars

\* The Go scheduler runs a runnable goroutine and the runtime fires an armed
\* timer: a step of Start() after its first check, a step of Kill() after
\* its SIGTERM, or a timer, is taken once one stays possible.  Nothing
\* obliges a caller to call, the child to exit, or the copy and scanner
\* goroutines to finish.
StartProgress ==
  \E s \in Starters :
    \/ StartCommand(s)
    \/ StartArm(s)
    \/ StartSpawn(s)
    \/ StartWait(s)
    \/ StartClosePipe(s)
    \/ StartCloseDone(s)
    \/ StartExitStatus(s)
    \/ StartTimeoutWait(s)
    \/ StartDrainDone(s)
    \/ StartDrainTimeout(s)

KillProgress ==
  \E k \in Killers : KillSelect(k) \/ KillDoneCase(k) \/ KillTimeoutCase(k)

TimerProgress ==
  \/ \E s \in Starters : DrainTimerFire(s)
  \/ \E k \in Killers : GraceExpire(k)

FairProc ==
  /\ WF_vars(StartProgress)
  /\ WF_vars(KillProgress)
  /\ WF_vars(TimerProgress)

FairSpecProcess == SpecProcess /\ FairProc

(***************************************************************************)
(* Properties of the process supervisor                                    *)
(***************************************************************************)
\* The exit status is final once Start() has passed line 659.
StatusFinal(s) == spc[s] \in {"timeoutWait", "draining", "returned"}
\* The bounded wait of timeoutWait has ended.
DrainEnded(s) == spc[s] = "returned" /\ sret[s] = "nil"
\* Process.Signal was called for this signal.
Attempted(x) == x \in {"delivered", "failed"}

\* C1: whenever the completion signal has fired, the exit status is final and
\* the bounded wait for the copy and scanner goroutines has ended.
C1_DoneAfterStatusAndDrain ==
  DoneFired => \E s \in callers : StatusFinal(s) /\ DrainEnded(s)

\* C3: the completion channel is closed at most once, no Start() closes it
\* again, and every Done() caller holds the channel that Start() closes.
C3_DoneFiresOnce ==
  /\ ~panicked
  /\ Cardinality(closedCh) <= 1
  /\ \A o \in Observers : obs[o] # 0 => obs[o] = done

\* C4: a Start() that found the handle running spawned nothing, and at most
\* one command of the handle is running at any time.
C4_AtMostOneRunning ==
  /\ \A s \in Starters : sret[s] = "AlreadyRunning" => pty[s] = 0
  /\ Cardinality({c \in Cmds : cmdState[c] = "running"}) <= 1

C6_KillErrorOnlyFromDelivery ==
  \A k \in Killers :
    kpc[k] = "returned" =>
      /\ kerr[k] \in {"nil", "SignalErr"}
      /\ kerr[k] = "SignalErr" <=> (kterm[k] = "failed" \/ kkill[k] = "failed")

C6_Witness ==
  \E k \in Killers :
    /\ kpc[k] = "returned"
    /\ ktimer[k] = "fired"
    /\ kkill[k] \in {"delivered", "noop"}
    /\ kerr[k] = "nil"
    /\ DoneFired

\* C7: every Kill() returns; one that waited out the grace period on a child
\* that ignores SIGTERM has sent SIGKILL, and a delivered SIGKILL is followed
\* by the completion signal.
C7_KillNeverHangs ==
  /\ \A k \in Killers : (kpc[k] # "idle") ~> (kpc[k] = "returned")
  /\ \A k \in Killers :
       (kpc[k] = "parked" /\ ignoresTerm /\ HasProcess /\ cmdState[command] = "running")
         ~> (kpc[k] = "returned" /\ (kkill[k] # "none" \/ DoneFired))
  /\ \A k \in Killers : (kkill[k] = "delivered") ~> DoneFired

C7_Witness ==
  \E k \in Killers :
    /\ ignoresTerm
    /\ kterm[k] = "delivered"
    /\ kpc[k] = "returned"
    /\ kkill[k] = "delivered"
    /\ ~kdoneAtExpiry[k]
    /\ DoneFired

ReportedStatus(c) ==
  IF cmdWait[c].kind = "nil" THEN "0"
  ELSE IF cmdWait[c].kind = "ExitError" /\ cmdWait[c].status \in 1..255
       THEN ToString(cmdWait[c].status)
       ELSE "-1"

\* C27: after a Start() whose spawn succeeded has set the exit status, it is
\* "0" for a child that exited with code 0, the decimal code for a child that
\* exited with a code in 1..255, and "-1" when the child has no exit code.
C27_ExitStatusOfChild ==
  \A s \in callers :
    (StatusFinal(s) /\ pty[s] # 0) => ExitStatus = ReportedStatus(pty[s])

C27_Witness ==
  \E s \in callers :
    /\ spc[s] = "returned"
    /\ sret[s] = "nil"
    /\ pty[s] # 0
    /\ cmdWait[pty[s]] = ExitError(255)
    /\ ExitStatus = "255"

\* C28: every launch of the start callback is one more callback, made in the
\* step in which the command became running with its pid recorded and the
\* running flag set; the callbacks launched are as many as the Start() calls
\* whose spawn succeeded, so a failed spawn launches none.
C28_CallbackOncePerSpawn ==
  [][/\ callbacks' = Cardinality({s \in Starters : pty'[s] # 0})
     /\ \A s \in Starters :
          (sret[s] # "SpawnErr" /\ sret'[s] = "SpawnErr") => callbacks' = callbacks
     /\ callbacks' # callbacks =>
          /\ callbacks' = callbacks + 1
          /\ running'
          /\ Pid' # 0
          /\ cmdState[Pid'] = "unstarted"
          /\ cmdState'[Pid'] = "running"]_vars

C28_Witness ==
  \E s, t \in Starters :
    /\ pty[s] # 0
    /\ sret[t] = "SpawnErr"
    /\ callbacks = 1

\* C31: a Start() whose spawn failed has returned the spawn error with exit
\* status "1"; the running flag is not set, no pid is recorded, no start
\* callback was launched and the completion signal has not fired; a Kill()
\* that has returned signalled no process and left its select by the timer
\* of the grace period, not by done.
C31_SpawnFailureLeavesNoTrace ==
  \A s \in callers :
    sret[s] = "SpawnErr" =>
      /\ spc[s] = "returned"
      /\ ExitStatus = "1"
      /\ ~running
      /\ Pid = 0
      /\ callbacks = 0
      /\ ~DoneFired
      /\ \A k \in killers :
           kpc[k] = "returned" =>
             /\ ktimer[k] = "fired"
             /\ ~kdoneAtExpiry[k]
             /\ kerr[k] = "nil"

C31_Witness ==
  \E s \in callers, k \in killers, o \in Observers :
    /\ sret[s] = "SpawnErr"
    /\ kpc[k] = "returned"
    /\ ktimer[k] = "fired"
    /\ obs[o] # 0
    /\ obs[o] = done
    /\ ~DoneFired

\* A Start() of the handle is between its successful spawn and line 653,
\* where it clears the flag after Wait() has returned.
BetweenSpawnAndExit ==
  \E s \in callers : pty[s] # 0 /\ spc[s] \in {"wait", "close"}

\* C32: whenever the completion signal has fired the running flag is false,
\* and the flag is true only while a Start() is between its successful
\* spawn and the return of Wait() for the command.
C32_DoneImpliesNotRunning ==
  /\ DoneFired => ~running
  /\ running => BetweenSpawnAndExit

(***************************************************************************)
(* The output path of Start(): the copy task, the line pipe, the scanner   *)
(***************************************************************************)
BufSize == 4      \* size of the bufio.Reader buffer of the scanner
CopyChunk == 5    \* most bytes one Read of the command's output returns
MaxLines == 2     \* most lines the command writes

LF == "\n"
CR == "\r"
Stamp == "2006-01-02T15:04:05Z"   \* time.Now().UTC().Format(time.RFC3339)

\* Lines a command may write, without their line end.
SampleLines ==
  { <<>>,
    <<"x">>,
    <<"#", "a", "b", "c">>,
    <<"a", "b", "c", CR>>,
    <<"^", "^", "^", " ", "+", "+", "+">>,
    <<" ", "^", "^", "^", " ", "+", "+", "+">>,
    <<"^", "^", "^", " ", "+", "+", "+", " ">> }

\* The output of a command that writes the lines ls, each followed by a line
\* feed, the last one only if terminated.
RECURSIVE Join(_, _)
Join(ls, terminated) ==
  IF ls = <<>> THEN <<>>
  ELSE IF Len(ls) = 1
       THEN ls[1] \o (IF terminated THEN <<LF>> ELSE <<>>)
       ELSE ls[1] \o <<LF>> \o Join(Tail(ls), terminated)

Outputs ==
  { Join(ls, t) : ls \in UNION {[1..n -> SampleLines] : n \in 0..MaxLines},
                  t \in BOOLEAN }

Min(a, b) == IF a < b THEN a ELSE b

\* Position of the first line feed of bs, 0 if it has none.
FirstLF(bs) ==
  IF \E i \in 1..Len(bs) : bs[i] = LF
  THEN CHOOSE i \in 1..Len(bs) : bs[i] = LF /\ \A j \in 1..(i - 1) : bs[j] # LF
  ELSE 0

\* bufio.Reader.ReadLine on the unread bytes rb, closed telling whether the
\* pipe reports EOF once rb is used up.  It returns up to the first line
\* feed, without the line end ("\n" or "\r\n"); a full buffer without a line
\* feed is returned as a prefix, a trailing "\r" being kept back; at EOF the
\* rest is returned as a last line, or io.EOF if there is none.  kind is
\* "line", "eof" or "fill" (more bytes are needed).
ReadLine(rb, closed) ==
  LET k == FirstLF(rb)
      n == Len(rb)
  IN IF k > 0
     THEN [kind |-> "line", isPrefix |-> FALSE,
           line |-> SubSeq(rb, 1, k - (IF k > 1 /\ rb[k - 1] = CR THEN 2 ELSE 1)),
           rest |-> SubSeq(rb, k + 1, n)]
     ELSE IF n >= BufSize
     THEN IF rb[n] = CR
          THEN [kind |-> "line", isPrefix |-> TRUE,
                line |-> SubSeq(rb, 1, n - 1), rest |-> <<CR>>]
          ELSE [kind |-> "line", isPrefix |-> TRUE, line |-> rb, rest |-> <<>>]
     ELSE IF closed
     THEN IF n > 0
          THEN [kind |-> "line", isPrefix |-> FALSE, line |-> rb, rest |-> <<>>]
          ELSE [kind |-> "eof", isPrefix |-> FALSE, line |-> <<>>, rest |-> <<>>]
     ELSE [kind |-> "fill", isPrefix |-> FALSE, line |-> <<>>, rest |-> rb]

\* p.LinePreProcessor: the pass-through default.
LinePreProcessor(l) == l

\* p.LineCallbackFilter: a filter that passes the lines that start with "#".
LineCallbackFilter(l) == l # <<>> /\ l[1] = "#"

\* \s of Go's regexp
IsSpace(c) == c \in {" ", "\t", LF, "\f", CR}

\* headerExpansionRegex.MatchString: ^(?:\^\^\^\s+\+\+\+)\s*$
HeaderMatch(l) ==
  \E n \in 1..(Len(l) - 6) :
    /\ SubSeq(l, 1, 3) = <<"^", "^", "^">>
    /\ \A i \in 4..(3 + n) : IsSpace(l[i])
    /\ SubSeq(l, 4 + n, 6 + n) = <<"+", "+", "+">>
    /\ \A i \in (7 + n)..Len(l) : IsSpace(l[i])

\* Lines 610-620: what the scanner appends to p.buffer for a line, with
\* timestamping enabled.
BufferLine(line, lineString, lineHasCallback) ==
  IF lineHasCallback \/ HeaderMatch(lineString)
  THEN line \o <<LF>>
  ELSE <<"[", Stamp, "]", " ">> \o line \o <<LF>>

\* Start() with one caller, no Kill() and no Done(), for a command that
\* writes out.
InitScan ==
  /\ InitRetryIdle
  /\ InitCollectIdle
  /\ InitProc({1}, {})
  /\ ignoresTerm = FALSE
  /\ InitUploadIdle
  /\ Timestamp \in BOOLEAN
  /\ out \in Outputs
  /\ copied = 0
  /\ inflight = <<>>
  /\ cpc = "read"
  /\ buffer = <<>>
  /\ rbuf = <<>>
  /\ delivered = <<>>
  /\ appending = NilBytes
  /\ lpc = "read"
  /\ processed = <<>>
  /\ tasks = <<>>

scanFrame == <<Pid, ExitStatus, command, running, chanVars, panicked, osVars,
               cfgVars, spc, sret, waitResult, pipeClosed, dtimer,
               timeoutLogged, callbacks, pty, killVars, obs>>

\* The goroutine that copies the command's output, the PTY copy of lines
\* 507-528 or the one exec.Cmd runs for Stdout and Stderr (lines 530-534),
\* ends: in PTY mode it leaves the wait group.
CopyEnds(s) == copier' = [copier EXCEPT ![s] = IF PTY THEN "finished" ELSE @]

\* One round of io.Copy(multiWriter, ...): a Read of the command's output,
\* then multiWriter.Write, which appends to p.buffer unless timestamping is
\* enabled (lines 488-492) and then writes to lineWriterPipe.  A write to the
\* closed pipe fails at once and ends the copy.  With all output read, the
\* Read reports the end (EOF, or EIO from the PTY) once the command has
\* exited, and the copy ends.
CopyRead(s) ==
  /\ ~panicked
  /\ s \in callers
  /\ pty[s] # 0
  /\ cpc = "read"
  /\ IF copied < Len(out)
     THEN LET chunk == SubSeq(out, copied + 1, Min(copied + CopyChunk, Len(out)))
          IN /\ copied' = copied + Len(chunk)
             /\ buffer' = IF Timestamp THEN buffer ELSE buffer \o chunk
             /\ IF pipeClosed[s]
                THEN cpc' = "failed" /\ CopyEnds(s) /\ UNCHANGED inflight
                ELSE cpc' = "write" /\ inflight' = chunk /\ UNCHANGED copier
     ELSE /\ cmdState[pty[s]] \in {"exited", "reaped"}
          /\ cpc' = "done"
          /\ CopyEnds(s)
          /\ UNCHANGED <<copied, buffer, inflight>>
  /\ UNCHANGED <<Timestamp, out, rbuf, delivered, appending, lpc, processed,
                 tasks>>
  /\ UNCHANGED <<scanFrame, scanner>>
  /\ UNCHANGED <<uvars, evars, rvars, avars>>

\* lineWriterPipe.Close() (line 650) while the Write is pending: the Write
\* returns io.ErrClosedPipe, the bytes not yet read are dropped and the copy
\* ends.
CopyWriteFail(s) ==
  /\ ~panicked
  /\ s \in callers
  /\ cpc = "write"
  /\ inflight # <<>>
  /\ pipeClosed[s]
  /\ inflight' = <<>>
  /\ cpc' = "failed"
  /\ CopyEnds(s)
  /\ UNCHANGED <<Timestamp, out, copied, buffer, rbuf, delivered, appending,
                 lpc, processed, tasks>>
  /\ UNCHANGED <<scanFrame, scanner>>
  /\ UNCHANGED <<uvars, evars, rvars, avars>>

\* Line 647 with the output: in pipe mode command.Wait() also waits for the
\* goroutine that copies Stdout and Stderr.
StartWaitOutput(s) ==
  /\ PTY \/ cpc \in {"done", "failed"}
  /\ StartWait(s)

\* Line 558, inside ReadLine: the reader has no line feed and room left, and
\* reads the pipe: it takes the bytes of the pending Write that fit; the
\* Write returns once its last byte is taken.
ScanFill(s) ==
  /\ ~panicked
  /\ s \in callers
  /\ scanner[s] = "running"
  /\ lpc = "read"
  /\ ReadLine(rbuf, FALSE).kind = "fill"
  /\ inflight # <<>>
  /\ LET n == Min(BufSize - Len(rbuf), Len(inflight))
     IN /\ rbuf' = rbuf \o SubSeq(inflight, 1, n)
        /\ delivered' = delivered \o SubSeq(inflight, 1, n)
        /\ inflight' = SubSeq(inflight, n + 1, Len(inflight))
        /\ cpc' = IF n = Len(inflight) THEN "read" ELSE cpc
  /\ UNCHANGED <<Timestamp, out, copied, buffer, appending, lpc, processed,
                 tasks>>
  /\ UNCHANGED <<scanFrame, copier, scanner>>
  /\ UNCHANGED <<uvars, evars, rvars, avars>>

\* The pipe reports EOF to the reader: it was closed and no Write is pending.
PipeEOF(s) == pipeClosed[s] /\ inflight = <<>>

\* Lines 557-631, one round of the loop for a ReadLine that returns bytes.
\* A prefix starts or extends appending and the loop continues (572-597); a
\* chunk that is no prefix ends the line, which is appending plus the chunk
\* if appending is not nil (585-594).  The line is then handled (605-630):
\* with timestamping the filter is evaluated and the line is appended to
\* p.buffer, with or without a timestamp; a callback task is started if the
\* line has a callback or the filter was not evaluated.
ScanLine(s) ==
  /\ ~panicked
  /\ s \in callers
  /\ scanner[s] = "running"
  /\ lpc = "read"
  /\ LET r == ReadLine(rbuf, PipeEOF(s))
     IN /\ r.kind = "line"
        /\ rbuf' = r.rest
        /\ IF r.isPrefix
           THEN /\ appending' = IF appending = NilBytes
                                THEN r.line
                                ELSE appending \o r.line
                /\ UNCHANGED <<buffer, processed, tasks>>
           ELSE LET line == IF appending = NilBytes
                            THEN r.line
                            ELSE appending \o r.line
                    lineString == LinePreProcessor(line)
                    lineHasCallback == Timestamp /\ LineCallbackFilter(lineString)
                IN /\ appending' = NilBytes
                   /\ buffer' = IF Timestamp
                                THEN buffer \o BufferLine(line, lineString, lineHasCallback)
                                ELSE buffer
                   /\ processed' = Append(processed, line)
                   /\ tasks' = IF lineHasCallback \/ ~Timestamp
                               THEN Append(tasks, [line |-> lineString,
                                                   checkedForCallback |-> Timestamp,
                                                   lineHasCallback |-> lineHasCallback,
                                                   state |-> "running",
                                                   called |-> FALSE])
                               ELSE tasks
  /\ UNCHANGED <<Timestamp, out, copied, inflight, cpc, delivered, lpc>>
  /\ UNCHANGED <<scanFrame, copier, scanner>>
  /\ UNCHANGED <<uvars, evars, rvars, avars>>

\* Lines 558-563: ReadLine returns io.EOF and the loop is left, whatever
\* appending holds.
ScanEOF(s) ==
  /\ ~panicked
  /\ s \in callers
  /\ scanner[s] = "running"
  /\ lpc = "read"
  /\ ReadLine(rbuf, PipeEOF(s)).kind = "eof"
  /\ lpc' = "wait"
  /\ UNCHANGED <<Timestamp, out, copied, inflight, cpc, buffer, rbuf,
                 delivered, appending, processed, tasks>>
  /\ UNCHANGED <<scanFrame, copier, scanner>>
  /\ UNCHANGED <<uvars, evars, rvars, avars>>

\* Lines 624-629: a callback task runs: the callback is called if the scanner
\* found the line to have one, or else if the filter passes the line.
LineTask(i) ==
  /\ ~panicked
  /\ i \in 1..Len(tasks)
  /\ tasks[i].state = "running"
  /\ LET t == tasks[i]
     IN tasks' = [tasks EXCEPT
                    ![i].called = (t.checkedForCallback /\ t.lineHasCallback)
                                    \/ LineCallbackFilter(t.line),
                    ![i].state = "done"]
  /\ UNCHANGED <<Timestamp, out, copied, inflight, cpc, buffer, rbuf,
                 delivered, appending, lpc, processed>>
  /\ UNCHANGED <<scanFrame, copier, scanner>>
  /\ UNCHANGED <<uvars, evars, rvars, avars>>

\* Lines 633-639: lineCallbackWaitGroup.Wait() returns when every callback
\* task has ended; the scanner leaves the wait group.
ScanFinish(s) ==
  /\ ~panicked
  /\ s \in callers
  /\ scanner[s] = "running"
  /\ lpc = "wait"
  /\ \A i \in 1..Len(tasks) : tasks[i].state = "done"
  /\ lpc' = "finished"
  /\ scanner' = [scanner EXCEPT ![s] = "finished"]
  /\ UNCHANGED <<Timestamp, out, copied, inflight, cpc, buffer, rbuf,
                 delivered, appending, processed, tasks>>
  /\ UNCHANGED <<scanFrame, copier>>
  /\ UNCHANGED <<uvars, evars, rvars, avars>>

NextScan ==
  \/ \E s \in Starters : StartCheck(s)
  \/ \E s \in Starters : StartCommand(s)
  \/ \E s \in Starters : StartArm(s)
  \/ \E s \in Starters : StartSpawn(s)
  \/ \E s \in Starters : StartWaitOutput(s)
  \/ \E s \in Starters : StartClosePipe(s)
  \/ \E s \in Starters : StartCloseDone(s)
  \/ \E s \in Starters : StartExitStatus(s)
  \/ \E s \in Starters : StartTimeoutWait(s)
  \/ \E s \in Starters : DrainTimerFire(s)
  \/ \E s \in Starters : StartDrainDone(s)
  \/ \E s \in Starters : StartDrainTimeout(s)
  \/ \E c \in Cmds : ChildExit(c)
  \/ \E s \in Starters : CopyRead(s)
  \/ \E s \in Starters : CopyWriteFail(s)
  \/ \E s \in Starters : ScanFill(s)
  \/ \E s \in Starters : ScanLine(s)
  \/ \E s \in Starters : ScanEOF(s)
  \/ \E i \in 1..MaxLines : LineTask(i)
  \/ \E s \in Starters : ScanFinish(s)

SpecScan == InitScan /\ [][NextScan]_vars

(***************************************************************************)
(* Properties of the output path                                           *)
(***************************************************************************)
\* The lines of a stream of bytes: each ends at a line feed, which is left
\* out together with a carriage return before it; bytes after the last line
\* feed are a last line.
RECURSIVE SplitLines(_)
SplitLines(bs) ==
  IF bs = <<>> THEN <<>>
  ELSE LET k == FirstLF(bs)
       IN IF k = 0 THEN <<bs>>
          ELSE <<SubSeq(bs, 1, k - (IF k > 1 /\ bs[k - 1] = CR THEN 2 ELSE 1))>>
                 \o SplitLines(SubSeq(bs, k + 1, Len(bs)))

ScanOver == lpc \in {"wait", "finished"}

\* C16: once the scanner has left its loop, the lines it handled are the
\* lines of the stream it read from the line pipe, in stream order, each one
\* whole.
C16_LinesAreStreamLines ==
  ScanOver => processed = SplitLines(delivered)

\* CallbackFilter applied to a sequence of lines.
Passing(ls) == SelectSeq(ls, LineCallbackFilter)

RECURSIVE CalledLines(_)
\* The lines LineCallback was called with, in the order of dispatch.
CalledLines(ts) ==
  IF ts = <<>> THEN <<>>
  ELSE (IF ts[1].called THEN <<ts[1].line>> ELSE <<>>) \o CalledLines(Tail(ts))

\* C17: once the scanner has finished, LineCallback was called once for each
\* line of the stream that passes the filter, and for no other line.
C17_CallbackOncePerPassingLine ==
  lpc = "finished" => CalledLines(tasks) = Passing(SplitLines(delivered))

\* C18: when the done channel is closed, and when Start() has returned nil,
\* the scanner has left its loop and every callback task it started has
\* ended.
C18_CallbacksBeforeCompletion ==
  DoneFired \/ (\E s \in callers : spc[s] = "returned" /\ sret[s] = "nil") =>
    /\ ScanOver
    /\ \A i \in 1..Len(tasks) : tasks[i].state = "done"

\* The structural marker as the specification words it: "^^^ +++" with
\* whitespace before or after it.
RECURSIVE TrimLeft(_)
TrimLeft(l) == IF l # <<>> /\ IsSpace(l[1]) THEN TrimLeft(Tail(l)) ELSE l
MarkerLine(l) == HeaderMatch(TrimLeft(l))

RECURSIVE Stamped(_)
\* The buffer that timestamping is to produce for a sequence of lines.
Stamped(ls) ==
  IF ls = <<>> THEN <<>>
  ELSE (IF LineCallbackFilter(ls[1]) \/ MarkerLine(ls[1])
        THEN ls[1] \o <<LF>>
        ELSE <<"[", Stamp, "]", " ">> \o ls[1] \o <<LF>>)
       \o Stamped(Tail(ls))

\* C19: with timestamping, once the scanner has left its loop, p.buffer holds
\* one line for each line of the stream, in stream order, without a prefix
\* for the lines that pass the filter or are a marker, and with the
\* timestamp prefix for every other line.
C19_TimestampedBuffer ==
  Timestamp /\ ScanOver => buffer = Stamped(SplitLines(delivered))

\* C20: without timestamping, once Start() has returned nil, p.buffer is the
\* whole output of the command, byte for byte.
C20_BufferIsWholeOutput ==
  \A s \in callers :
    ~Timestamp /\ spc[s] = "returned" /\ sret[s] = "nil" => buffer = out

(***************************************************************************)
(* retry.Do and pool.Pool, as upload() uses them                           *)
(***************************************************************************)
UploadMaximum == 10   \* retry.Config{Maximum: 10} of the artifact upload
UpdateMaximum == 10   \* retry.Config{Maximum: 10} of the state update

\* RetryAgain that allows one attempt more than the maximum.
RetryAgainOnceMore(result, attempt, maximum) ==
  result # "nil" /\ attempt <= maximum

\* retry.Do tries again after a failed attempt while attempts remain.
RetryAgain(result, attempt, maximum) == result # "nil" /\ attempt < maximum

\* retry.Do over the outcomes of successive attempts: the number of calls
\* made and the error returned (that of the last attempt made).
RECURSIVE RetryDo(_, _, _)
RetryDo(outcomes, attempt, maximum) ==
  IF RetryAgain(outcomes[attempt], attempt, maximum)
  THEN RetryDo(outcomes, attempt + 1, maximum)
  ELSE [calls |-> attempt, err |-> outcomes[attempt]]

\* The outcomes of an upload that first succeeds at attempt fs.
UploadOutcomes(fs) ==
  [i \in 1..UploadMaximum |-> IF i >= fs THEN "nil" ELSE "UploadErr"]

\* Tasks of the pool that hold one of its slots.
PoolBusy == {a \in Artifacts : wpc[a] \in {"uploading", "iferr", "write"}}
\* pool.Spawn blocks until a slot is free.
PoolHasSlot == Cardinality(PoolBusy) < PoolCapacity
\* pool.Wait returns when every spawned task has finished.
PoolDrained == \A a \in Artifacts : wpc[a] \in {"queued", "done"}

Entries(m) == {a \in Artifacts : m[a] # ""}
NoEntries == [a \in Artifacts |-> ""]

(***************************************************************************)
(* ArtifactUploader.upload: the reporter goroutine (lines 224-276)         *)
(***************************************************************************)
\* ReporterLoop with a loop condition that is off by one.
ReporterLoopEarly ==
  /\ rpc = "loop"
  /\ rpc' = IF artifactStatesUploaded + 1 < NArtifacts THEN "drain" ELSE "exited"
  /\ UNCHANGED <<err, errors, artifactStates, artifactStatesUploaded,
                 statesToUpload, batches, updateCalls, updated, updateFailed, rres, mpc,
                 spawned, wpc, wok, wtried, state>>
  /\ UNCHANGED <<pvars, evars, lvars, rvars, avars>>

\* Line 225 (and 275): the loop condition; the goroutine ends when it is false.
ReporterLoop ==
  /\ rpc = "loop"
  /\ rpc' = IF artifactStatesUploaded < NArtifacts THEN "drain" ELSE "exited"
  /\ UNCHANGED <<err, errors, artifactStates, artifactStatesUploaded,
                 statesToUpload, batches, updateCalls, updated, updateFailed, rres, mpc, spawned,
                 wpc, wok, wtried, state>>
  /\ UNCHANGED <<pvars, evars, lvars, rvars, avars>>

\* ReporterDrain that copies the entries and leaves them in the map.
ReporterDrainKeep ==
  /\ rpc = "drain"
  /\ statesToUpload' = artifactStates
  /\ IF Entries(artifactStates) # {}
     THEN /\ artifactStatesUploaded' =
               artifactStatesUploaded + Cardinality(Entries(artifactStates))
          /\ batches' = Append(batches, artifactStates)
          /\ updateCalls' = 0
          /\ rpc' = "update"
     ELSE /\ rpc' = "loop"
          /\ UNCHANGED <<artifactStatesUploaded, batches, updateCalls>>
  /\ UNCHANGED <<err, errors, artifactStates, updated, updateFailed, rres, mpc, spawned,
                 wpc, wok, wtried, state>>
  /\ UNCHANGED <<pvars, evars, lvars, rvars, avars>>

\* Lines 226-245 and 272: under artifactStatesMutex every entry of the map
\* is copied to statesToUpload and deleted; a non-empty batch is counted; an
\* empty one leads to the sleep and back to the loop condition.
ReporterDrain ==
  /\ rpc = "drain"
  /\ statesToUpload' = artifactStates
  /\ artifactStates' = NoEntries
  /\ IF Entries(artifactStates) # {}
     THEN /\ artifactStatesUploaded' =
               artifactStatesUploaded + Cardinality(Entries(artifactStates))
          /\ batches' = Append(batches, artifactStates)
          /\ updateCalls' = 0
          /\ rpc' = "update"
     ELSE /\ rpc' = "loop"
          /\ UNCHANGED <<artifactStatesUploaded, batches, updateCalls, updated, updateFailed>>
  /\ UNCHANGED <<err, errors, updated, updateFailed, rres, mpc, spawned, wpc, wok, wtried,
                 state>>
  /\ UNCHANGED <<pvars, evars, lvars, rvars, avars>>

\* Line 249: one call of Artifacts.Update; its error is stored in the shared
\* err variable.
ReporterUpdate ==
  /\ rpc = "update"
  /\ \E ok \in BOOLEAN :
       /\ err' = IF ok THEN "nil" ELSE "UpdateErr"
       /\ updateFailed' = IF ok THEN updateFailed \ {Len(batches)}
                          ELSE updateFailed \cup {Len(batches)}
  /\ updateCalls' = updateCalls + 1
  /\ updated' = Len(batches)
  /\ rpc' = "updated"
  /\ UNCHANGED <<errors, artifactStates, artifactStatesUploaded,
                 statesToUpload, batches, rres, mpc, spawned, wpc, wok,
                 wtried, state>>
  /\ UNCHANGED <<pvars, evars, lvars, rvars, avars>>

\* Lines 250-255: the callback returns the shared err as it is now; retry.Do
\* calls again or returns it.
ReporterRetry ==
  /\ rpc = "updated"
  /\ IF RetryAgain(err, updateCalls, UpdateMaximum)
     THEN /\ rpc' = "update"
          /\ UNCHANGED rres
     ELSE /\ rpc' = "assign"
          /\ rres' = err
  /\ UNCHANGED <<err, errors, artifactStates, artifactStatesUploaded,
                 statesToUpload, batches, updateCalls, updated, updateFailed, mpc, spawned, wpc,
                 wok, wtried, state>>
  /\ UNCHANGED <<pvars, evars, lvars, rvars, avars>>

\* Line 248: err = retry.Do(...).
ReporterAssign ==
  /\ rpc = "assign"
  /\ err' = rres
  /\ rpc' = "iferr"
  /\ UNCHANGED <<errors, artifactStates, artifactStatesUploaded,
                 statesToUpload, batches, updateCalls, updated, updateFailed, rres, mpc, spawned,
                 wpc, wok, wtried, state>>
  /\ UNCHANGED <<pvars, evars, lvars, rvars, avars>>

\* Lines 257-272: if err != nil the error is appended under errorsMutex;
\* then the sleep, and back to the loop condition.
ReporterCheck ==
  /\ rpc = "iferr"
  /\ errors' = IF err # "nil"
               THEN errors \cup {[by |-> "update", id |-> Len(batches)]}
               ELSE errors
  /\ rpc' = "loop"
  /\ UNCHANGED <<err, artifactStates, artifactStatesUploaded, statesToUpload,
                 batches, updateCalls, updated, updateFailed, rres, mpc, spawned, wpc, wok, wtried,
                 state>>
  /\ UNCHANGED <<pvars, evars, lvars, rvars, avars>>

(***************************************************************************)
(* ArtifactUploader.upload: the pool tasks (lines 278-324)                 *)
(***************************************************************************)
\* Spawn that does not wait for a slot of the pool.
SpawnUnbounded ==
  /\ mpc = "spawn"
  /\ spawned < NArtifacts
  /\ wpc' = [wpc EXCEPT ![spawned + 1] = "uploading"]
  /\ spawned' = spawned + 1
  /\ UNCHANGED <<err, errors, artifactStates, artifactStatesUploaded,
                 statesToUpload, batches, updateCalls, updated, updateFailed, rpc, rres, mpc, wok,
                 wtried, state>>
  /\ UNCHANGED <<pvars, evars, lvars, rvars, avars>>

\* Lines 278-283: p.Spawn of the next artifact's task, once a slot is free.
Spawn ==
  /\ mpc = "spawn"
  /\ spawned < NArtifacts
  /\ PoolHasSlot
  /\ wpc' = [wpc EXCEPT ![spawned + 1] = "uploading"]
  /\ spawned' = spawned + 1
  /\ UNCHANGED <<err, errors, artifactStates, artifactStatesUploaded,
                 statesToUpload, batches, updateCalls, updated, updateFailed, rpc, rres, mpc, wok,
                 wtried, state>>
  /\ UNCHANGED <<pvars, evars, lvars, rvars, avars>>

\* Lines 290-297: retry.Do around uploader.Upload, whose callback keeps its
\* error in a local variable; the result is assigned to the shared err.
TaskUpload(a) ==
  /\ wpc[a] = "uploading"
  /\ \E fs \in 1..(UploadMaximum + 1) :
       LET r == RetryDo(UploadOutcomes(fs), 1, UploadMaximum)
       IN /\ err' = r.err
          /\ wok' = [wok EXCEPT ![a] = (fs <= UploadMaximum)]
  /\ wtried' = [wtried EXCEPT ![a] = TRUE]
  /\ wpc' = [wpc EXCEPT ![a] = "iferr"]
  /\ UNCHANGED <<errors, artifactStates, artifactStatesUploaded,
                 statesToUpload, batches, updateCalls, updated, updateFailed, rpc, rres, mpc,
                 spawned, state>>
  /\ UNCHANGED <<pvars, evars, lvars, rvars, avars>>

\* Lines 299-315: if err != nil the error is appended under errorsMutex and
\* state is "error", otherwise state is "finished".
TaskCheck(a) ==
  /\ wpc[a] = "iferr"
  /\ IF err # "nil"
     THEN /\ errors' = errors \cup {[by |-> "upload", id |-> a]}
          /\ state' = [state EXCEPT ![a] = "error"]
     ELSE /\ state' = [state EXCEPT ![a] = "finished"]
          /\ UNCHANGED errors
  /\ wpc' = [wpc EXCEPT ![a] = "write"]
  /\ UNCHANGED <<err, artifactStates, artifactStatesUploaded, statesToUpload,
                 batches, updateCalls, updated, updateFailed, rpc, rres, mpc, spawned, wok, wtried>>
  /\ UNCHANGED <<pvars, evars, lvars, rvars, avars>>

\* TaskWrite that records the state of a failed upload only.
TaskWriteErrorsOnly(a) ==
  /\ wpc[a] = "write"
  /\ artifactStates' = IF state[a] = "error"
                       THEN [artifactStates EXCEPT ![a] = state[a]]
                       ELSE artifactStates
  /\ wpc' = [wpc EXCEPT ![a] = "done"]
  /\ UNCHANGED <<err, errors, artifactStatesUploaded, statesToUpload, batches,
                 updateCalls, updated, updateFailed, rpc, rres, mpc, spawned, wok, wtried, state>>
  /\ UNCHANGED <<pvars, evars, lvars, rvars, avars>>

\* Lines 317-323: artifactStates[artifact.ID] = state under
\* artifactStatesMutex; the task ends and frees its slot.
TaskWrite(a) ==
  /\ wpc[a] = "write"
  /\ artifactStates' = [artifactStates EXCEPT ![a] = state[a]]
  /\ wpc' = [wpc EXCEPT ![a] = "done"]
  /\ UNCHANGED <<err, errors, artifactStatesUploaded, statesToUpload, batches,
                 updateCalls, updated, updateFailed, rpc, rres, mpc, spawned, wok, wtried, state>>
  /\ UNCHANGED <<pvars, evars, lvars, rvars, avars>>

(***************************************************************************)
(* ArtifactUploader.upload: the end (lines 326-336)                        *)
(***************************************************************************)
\* Line 327: p.Wait(), after the last p.Spawn.
PoolWait ==
  /\ mpc = "spawn"
  /\ spawned = NArtifacts
  /\ PoolDrained
  /\ mpc' = "statewait"
  /\ UNCHANGED <<err, errors, artifactStates, artifactStatesUploaded,
                 statesToUpload, batches, updateCalls, updated, updateFailed, rpc, rres, spawned,
                 wpc, wok, wtried, state>>
  /\ UNCHANGED <<pvars, evars, lvars, rvars, avars>>

\* Lines 330-336: stateUploaderWaitGroup.Wait(), then logger.Fatal if any
\* error was collected, else return nil.
StateWait ==
  /\ mpc = "statewait"
  /\ rpc = "exited"
  /\ mpc' = IF errors # {} THEN "fatal" ELSE "returned"
  /\ UNCHANGED <<err, errors, artifactStates, artifactStatesUploaded,
                 statesToUpload, batches, updateCalls, updated, updateFailed, rpc, rres, spawned,
                 wpc, wok, wtried, state>>
  /\ UNCHANGED <<pvars, evars, lvars, rvars, avars>>

(***************************************************************************)
(* ArtifactUploader.upload: before the pool (lines 168-224)                *)
(***************************************************************************)
\* strings.HasPrefix
HasPrefix(str, prefix) ==
  Len(str) >= Len(prefix) /\ SubSeq(str, 1, Len(prefix)) = prefix

uploadVars == <<errors, artifactStates, artifactStatesUploaded, statesToUpload,
                batches, updateCalls, updated, updateFailed, rres, spawned, wpc, wok, wtried,
                state>>

\* Lines 171-182: the uploader is chosen from the destination; a destination
\* that is not empty and has neither prefix makes upload() return an error.
UploadSelect ==
  /\ mpc = "select"
  /\ IF Destination # <<>>
     THEN IF HasPrefix(Destination, <<"s", "3", ":", "/", "/">>)
          THEN uploader' = "S3Uploader" /\ mpc' = "setup" /\ UNCHANGED uret
          ELSE IF HasPrefix(Destination, <<"g", "s", ":", "/", "/">>)
          THEN uploader' = "GSUploader" /\ mpc' = "setup" /\ UNCHANGED uret
          ELSE /\ uret' = "InvalidDestination"
               /\ mpc' = "failed"
               /\ UNCHANGED uploader
     ELSE uploader' = "FormUploader" /\ mpc' = "setup" /\ UNCHANGED uret
  /\ UNCHANGED <<Destination, err, rpc, uploadVars>>
  /\ UNCHANGED <<pvars, lvars, rvars, avars>>

\* Lines 184-193: err := uploader.Setup(...); upload() returns err if it is
\* not nil, else every artifact gets its URL from the uploader.
UploadSetup ==
  /\ mpc = "setup"
  /\ \E ok \in BOOLEAN :
       IF ok
       THEN err' = "nil" /\ mpc' = "create" /\ UNCHANGED uret
       ELSE err' = "SetupErr" /\ uret' = "SetupErr" /\ mpc' = "failed"
  /\ UNCHANGED <<Destination, uploader, rpc, uploadVars>>
  /\ UNCHANGED <<pvars, lvars, rvars, avars>>

\* UploadCreate that goes on after a failed registration.
UploadCreateGoesOn ==
  /\ mpc = "create"
  /\ \E ok \in BOOLEAN :
       IF ok
       THEN err' = "nil" /\ UNCHANGED uret
       ELSE err' = "CreateErr" /\ uret' = "CreateErr"
  /\ mpc' = "spawn"
  /\ rpc' = "loop"
  /\ UNCHANGED <<Destination, uploader, uploadVars>>
  /\ UNCHANGED <<pvars, lvars, rvars, avars>>

\* Lines 195-224: artifacts, err = batchCreator.Create(); upload() returns
\* err if it is not nil; else the pool, the error list and the state map are
\* made and the reporter goroutine is started.
UploadCreate ==
  /\ mpc = "create"
  /\ \E ok \in BOOLEAN :
       IF ok
       THEN err' = "nil" /\ mpc' = "spawn" /\ rpc' = "loop" /\ UNCHANGED uret
       ELSE /\ err' = "CreateErr"
            /\ uret' = "CreateErr"
            /\ mpc' = "failed"
            /\ UNCHANGED rpc
  /\ UNCHANGED <<Destination, uploader, uploadVars>>
  /\ UNCHANGED <<pvars, lvars, rvars, avars>>

NextUpload ==
  \/ ReporterLoop
  \/ ReporterDrain
  \/ ReporterUpdate
  \/ ReporterRetry
  \/ ReporterAssign
  \/ ReporterCheck
  \/ Spawn
  \/ \E a \in Artifacts : TaskUpload(a)
  \/ \E a \in Artifacts : TaskCheck(a)
  \/ \E a \in Artifacts : TaskWrite(a)
  \/ PoolWait
  \/ StateWait

InitUploadOnly ==
  InitUpload /\ InitProcIdle /\ InitRetryIdle /\ InitCollectIdle
SpecUpload == InitUploadOnly /\ [][NextUpload]_vars

NextUploadEntry ==
  \/ UploadSelect
  \/ UploadSetup
  \/ UploadCreate
  \/ NextUpload

InitUploadWhole ==
  InitUploadEntry /\ InitProcIdle /\ InitRetryIdle /\ InitCollectIdle
SpecUploadEntry == InitUploadWhole /\ [][NextUploadEntry]_vars

\* Every goroutine of upload() is scheduled, and every call it makes
\* (Upload, Artifacts.Update, time.Sleep) returns: the reporter, the pool
\* tasks and upload() itself each take their next step once it stays
\* possible.
ReporterProgress ==
  \/ ReporterLoop
  \/ ReporterDrain
  \/ ReporterUpdate
  \/ ReporterRetry
  \/ ReporterAssign
  \/ ReporterCheck

TaskProgress ==
  \E a \in Artifacts : TaskUpload(a) \/ TaskCheck(a) \/ TaskWrite(a)

UploadProgress == Spawn \/ PoolWait \/ StateWait

FairUpload ==
  /\ WF_vars(ReporterProgress)
  /\ WF_vars(TaskProgress)
  /\ WF_vars(UploadProgress)

FairSpecUpload == SpecUpload /\ FairUpload

(***************************************************************************)
(* Properties of the upload pipeline                                       *)
(***************************************************************************)
\* The batches that hold an entry for artifact a.
BatchesOf(a) == {i \in 1..Len(batches) : batches[i][a] # ""}
UploadOver == mpc \in {"returned", "fatal"}

\* C2: the state a task writes is "error" exactly when every attempt of its
\* own upload failed, "finished" exactly when one succeeded, and the task
\* appended an error exactly when it wrote "error".
C2_StateIsOwnOutcome ==
  \A a \in Artifacts :
    wpc[a] \in {"write", "done"} =>
      /\ state[a] = "error" <=> ~wok[a]
      /\ state[a] = "finished" <=> wok[a]
      /\ [by |-> "upload", id |-> a] \in errors <=> state[a] = "error"

\* C9: when upload() has returned or ended in logger.Fatal, every task has
\* finished, the reporter has ended, the state map is empty, and every
\* artifact's state is in a batch for which Artifacts.Update was called; no
\* upload and no update is in progress.
C9_UploadEndsAfterAllWork ==
  UploadOver =>
    /\ \A a \in Artifacts : wpc[a] = "done"
    /\ rpc = "exited"
    /\ Entries(artifactStates) = {}
    /\ updated = Len(batches)
    /\ \A a \in Artifacts :
         \E i \in 1..updated : batches[i][a] = state[a] /\ state[a] # ""

C9_Witness ==
  /\ mpc = "returned"
  /\ Len(batches) = NArtifacts
  /\ updated = NArtifacts

\* C10: an identifier's state is in the map or in exactly one batch, never
\* in two and never lost; a drain empties the map; the counter is the number
\* of states drained; the reporter calls Artifacts.Update for one batch at a
\* time, the one it drained last.
C10_EachStateInOneBatch ==
  /\ \A a \in Artifacts :
       /\ Cardinality(BatchesOf(a)) <= 1
       /\ wpc[a] = "done" =>
            \/ artifactStates[a] = state[a] /\ BatchesOf(a) = {}
            \/ /\ artifactStates[a] = ""
               /\ \E i \in BatchesOf(a) : batches[i][a] = state[a]
       /\ wpc[a] # "done" => artifactStates[a] = "" /\ BatchesOf(a) = {}
  /\ artifactStatesUploaded = Cardinality({a \in Artifacts : BatchesOf(a) # {}})
  /\ rpc \in {"update", "updated", "assign", "iferr"} =>
       /\ Len(batches) > 0
       /\ statesToUpload = batches[Len(batches)]
       /\ updated \in {Len(batches) - 1, Len(batches)}
  /\ rpc \in {"loop", "drain", "exited"} => updated = Len(batches)
  /\ \A i \in 1..Len(batches) : Entries(batches[i]) # {}

C10_Witness ==
  /\ Len(batches) >= 2
  /\ updated = Len(batches)
  /\ \A a \in Artifacts : BatchesOf(a) # {}
  /\ \E a \in Artifacts : state[a] = "error"

\* The terminal state that artifact a's own upload calls for.
OwnState(a) == IF wok[a] THEN "finished" ELSE "error"

C13_UploadTerminates ==
  <>(UploadOver /\ rpc = "exited" /\ artifactStatesUploaded = NArtifacts)

C13_Witness ==
  /\ mpc = "fatal"
  /\ rpc = "exited"
  /\ Len(batches) = 1
  /\ artifactStatesUploaded = NArtifacts

\* The artifacts whose uploader.Upload (inside retry.Do) is in progress.
Uploading == {a \in Artifacts : wpc[a] = "uploading"}

\* C14: the uploads in progress, and the tasks that hold a slot of the pool,
\* never outnumber the capacity of the pool; a task runs only once spawned,
\* in the order of the list.
C14_PoolBound ==
  /\ Cardinality(Uploading) <= PoolCapacity
  /\ Cardinality(PoolBusy) <= PoolCapacity
  /\ \A a \in Artifacts : wpc[a] # "queued" <=> a <= spawned

C14_Witness ==
  /\ Cardinality(Uploading) = PoolCapacity
  /\ spawned < NArtifacts
  /\ rpc = "drain"

\* Something of the upload proper has happened: the reporter exists, a task
\* was spawned or ran, a batch was drained or Artifacts.Update was called.
UploadStarted ==
  \/ rpc # "unstarted"
  \/ spawned > 0
  \/ \E a \in Artifacts : wpc[a] # "queued" \/ wtried[a]
  \/ batches # <<>>
  \/ updated > 0
  \/ updateCalls > 0

RecognizedDestination ==
  \/ Destination = <<>>
  \/ HasPrefix(Destination, <<"s", "3", ":", "/", "/">>)
  \/ HasPrefix(Destination, <<"g", "s", ":", "/", "/">>)

\* C15: upload() has returned an error early exactly when it is at its
\* failed end; the error is that of the step that failed (the destination,
\* Setup or Create); after it, and as long as the three steps have not all
\* succeeded, no task was spawned, the reporter does not exist and no update
\* was sent; a destination that is not recognized never gets past selection.
C15_EarlyFailureStartsNothing ==
  /\ uret # "none" <=> mpc = "failed"
  /\ mpc \in {"select", "setup", "create", "failed"} => ~UploadStarted
  /\ mpc = "failed" =>
       /\ uret \in {"InvalidDestination", "SetupErr", "CreateErr"}
       /\ uret = "InvalidDestination" <=> ~RecognizedDestination
       /\ uret # "InvalidDestination" => uret = err /\ uploader # "nil"
       /\ errors = {}
  /\ ~RecognizedDestination => mpc \in {"select", "failed"} /\ uploader = "nil"

C15_Witness ==
  /\ mpc = "failed"
  /\ uret = "CreateErr"
  /\ uploader = "S3Uploader"

\* The reporter's retry.Do for the current batch made all its calls of
\* Artifacts.Update, the last one failed, and it returned that error.
UpdateGaveUp ==
  /\ updateCalls = UpdateMaximum
  /\ Len(batches) \in updateFailed
  /\ rres = "UpdateErr"

\* C30: when the update of a batch still fails after its retries, the step of
\* the reporter that follows (lines 257-272) appends the failure to the error
\* list, puts none of the batch's states back into the map and leaves the
\* count of flushed states as it is.
C30_FailedBatchIsReported ==
  [][(rpc = "iferr" /\ rpc' = "loop" /\ UpdateGaveUp) =>
       /\ [by |-> "update", id |-> Len(batches)] \in errors'
       /\ artifactStates' = artifactStates
       /\ artifactStatesUploaded' = artifactStatesUploaded
       /\ batches' = batches]_vars

(***************************************************************************)
(* retry.Do as the commands and upload() call it                           *)
(***************************************************************************)
PipelineMaximum == 5   \* retry.Config{Maximum: 5} of the pipeline upload
AnnotateMaximum == 5   \* retry.Config{Maximum: 5} of the annotation

Uses == {"upload", "update", "pipeline", "annotate"}

\* The Maximum of the retry.Config each call passes.
Maximum(u) ==
  CASE u = "upload" -> UploadMaximum
    [] u = "update" -> UpdateMaximum
    [] u = "pipeline" -> PipelineMaximum
    [] u = "annotate" -> AnnotateMaximum

\* The HTTP statuses the backend may answer; 0: the request got no response.
Statuses(u) ==
  CASE u = "upload" -> {200, 0}
    [] u = "update" -> {200, 500}
    [] u = "pipeline" -> {200, 422, 500, 0}
    [] u = "annotate" -> {201, 400, 401, 404, 500, 0}

Pipelines == {"steps: a", "steps: b"}

\* The error the api client returns with a response: nil for a 2xx status,
\* an *api.ErrorResponse carrying the status otherwise, a transport error
\* when there is no response.
ErrOf(st) ==
  IF st = 0 THEN "NetErr"
  ELSE IF st \in 200..299 THEN "nil"
  ELSE "ErrorResponse" \o ToString(st)

\* retry.Do without the break flag.
RetryGoesOnBroken(result, attempt, maximum, brk) ==
  RetryAgain(result, attempt, maximum)

\* retry.Do makes another attempt after a failed one while attempts remain
\* and the operation has not called Break().
RetryGoesOn(result, attempt, maximum, brk) ==
  RetryAgain(result, attempt, maximum) /\ ~brk

InitRetry ==
  /\ use \in Uses
  /\ Replace \in (IF use = "pipeline" THEN BOOLEAN ELSE {FALSE})
  /\ Pipeline \in (IF use = "pipeline" THEN Pipelines ELSE {""})
  /\ uuid = 0
  /\ uuids \in 0..1
  /\ Attempt = 1
  /\ broken = FALSE
  /\ rerr = "nil"
  /\ rret = "none"
  /\ sent = <<>>
  /\ replies = <<>>
  /\ slept = 0
  /\ qpc = IF use = "pipeline" THEN "uuid" ELSE "call"

retryFrame == <<pvars, uvars, evars, lvars, avars>>

\* pipeline_upload.go line 215: uuid := api.NewUUID(), a value no earlier
\* call returned.
PipelineNewUUID ==
  /\ use = "pipeline"
  /\ qpc = "uuid"
  /\ uuid' = uuids + 1
  /\ uuids' = uuids + 1
  /\ qpc' = "call"
  /\ UNCHANGED <<use, Replace, Pipeline, Attempt, broken, rerr, rret, sent,
                 replies, slept>>
  /\ UNCHANGED retryFrame

\* PipelineUploadCall with the UUID generated inside the operation.
PipelineUploadCallFreshUUID ==
  /\ use = "pipeline"
  /\ qpc = "call"
  /\ uuid' = uuids + 1
  /\ uuids' = uuids + 1
  /\ \E st \in Statuses(use) :
       /\ sent' = Append(sent, [UUID |-> uuid', Pipeline |-> Pipeline,
                                Replace |-> Replace])
       /\ replies' = Append(replies, st)
       /\ rerr' = ErrOf(st)
       /\ broken' = (broken \/ (ErrOf(st) # "nil" /\ st # 0 /\ st = 422))
  /\ qpc' = "called"
  /\ UNCHANGED <<use, Replace, Pipeline, Attempt, rret, slept>>
  /\ UNCHANGED retryFrame

\* pipeline_upload.go lines 219-230, one call of the operation:
\* Pipelines.Upload with the uuid, the pipeline and the replace flag; an
\* *api.ErrorResponse with status 422 calls Break(); the error is returned.
PipelineUploadCall ==
  /\ use = "pipeline"
  /\ qpc = "call"
  /\ \E st \in Statuses(use) :
       /\ sent' = Append(sent, [UUID |-> uuid, Pipeline |-> Pipeline,
                                Replace |-> Replace])
       /\ replies' = Append(replies, st)
       /\ rerr' = ErrOf(st)
       /\ broken' = (broken \/ (ErrOf(st) # "nil" /\ st # 0 /\ st = 422))
  /\ qpc' = "called"
  /\ UNCHANGED <<use, Replace, Pipeline, uuid, uuids, Attempt, rret, slept>>
  /\ UNCHANGED retryFrame

\* pipeline_upload.go lines 381-395, one call of the operation:
\* Annotations.Create; a response with status 401, 404 or 400 calls Break();
\* the error is returned.
AnnotateCall ==
  /\ use = "annotate"
  /\ qpc = "call"
  /\ \E st \in Statuses(use) :
       /\ sent' = Append(sent, [to |-> "annotate"])
       /\ replies' = Append(replies, st)
       /\ rerr' = ErrOf(st)
       /\ broken' = (broken \/ (st # 0 /\ st \in {401, 404, 400}))
  /\ qpc' = "called"
  /\ UNCHANGED <<use, Replace, Pipeline, uuid, uuids, Attempt, rret, slept>>
  /\ UNCHANGED retryFrame

\* artifact_uploader.go lines 291-296, one call of the operation:
\* uploader.Upload(artifact); the error is returned.
ArtifactUploadCall ==
  /\ use = "upload"
  /\ qpc = "call"
  /\ \E st \in Statuses(use) :
       /\ sent' = Append(sent, [to |-> "upload"])
       /\ replies' = Append(replies, st)
       /\ rerr' = ErrOf(st)
  /\ qpc' = "called"
  /\ UNCHANGED <<use, Replace, Pipeline, uuid, uuids, Attempt, broken, rret,
                 slept>>
  /\ UNCHANGED retryFrame

\* artifact_uploader.go lines 249-254, one call of the operation, taken by
\* itself: Artifacts.Update(statesToUpload); the error is returned.
StateUpdateCall ==
  /\ use = "update"
  /\ qpc = "call"
  /\ \E st \in Statuses(use) :
       /\ sent' = Append(sent, [to |-> "update"])
       /\ replies' = Append(replies, st)
       /\ rerr' = ErrOf(st)
  /\ qpc' = "called"
  /\ UNCHANGED <<use, Replace, Pipeline, uuid, uuids, Attempt, broken, rret,
                 slept>>
  /\ UNCHANGED retryFrame

\* retry.Do after a call of the operation: it returns nil after a success,
\* the error after a Break() or after the last attempt, and otherwise goes
\* on to the wait before the next attempt.
RetryDecide ==
  /\ qpc = "called"
  /\ IF RetryGoesOn(rerr, Attempt, Maximum(use), broken)
     THEN /\ Attempt' = Attempt + 1
          /\ qpc' = "sleep"
          /\ UNCHANGED rret
     ELSE /\ rret' = rerr
          /\ qpc' = "returned"
          /\ UNCHANGED Attempt
  /\ UNCHANGED <<use, Replace, Pipeline, uuid, uuids, broken, rerr, sent,
                 replies, slept>>
  /\ UNCHANGED retryFrame

\* retry.Do waits one interval before the next attempt.
RetrySleep ==
  /\ qpc = "sleep"
  /\ slept' = slept + 1
  /\ qpc' = "call"
  /\ UNCHANGED <<use, Replace, Pipeline, uuid, uuids, Attempt, broken, rerr,
                 rret, sent, replies>>
  /\ UNCHANGED retryFrame

\* pipeline_upload.go lines 232-236 and 399-403: the command ends with
\* logger.Fatal when retry.Do returned an error, and goes on otherwise.
CommandEnd ==
  /\ use \in {"pipeline", "annotate"}
  /\ qpc = "returned"
  /\ qpc' = IF rret # "nil" THEN "fatal" ELSE "succeeded"
  /\ UNCHANGED <<use, Replace, Pipeline, uuid, uuids, Attempt, broken, rerr,
                 rret, sent, replies, slept>>
  /\ UNCHANGED retryFrame

NextRetry ==
  \/ PipelineNewUUID
  \/ PipelineUploadCall
  \/ AnnotateCall
  \/ ArtifactUploadCall
  \/ StateUpdateCall
  \/ RetryDecide
  \/ RetrySleep
  \/ CommandEnd

InitRetryOnly ==
  InitRetry /\ InitProcIdle /\ InitUploadIdle /\ InitCollectIdle
SpecRetry == InitRetryOnly /\ [][NextRetry]_vars

(***************************************************************************)
(* Properties of retry.Do and of the two commands                          *)
(***************************************************************************)
\* The backend accepted the request.
Succeeded(st) == st \in 200..299
LastReply == replies[Len(replies)]
\* The statuses that the commands treat as final.
Unrecoverable(u, st) ==
  \/ u = "pipeline" /\ st = 422
  \/ u = "annotate" /\ st \in {400, 401, 404}

C22_BreakEndsRetry ==
  [][(broken \/ (replies # <<>> /\ Unrecoverable(use, LastReply))) =>
       /\ sent' = sent
       /\ slept' = slept
       /\ rret' # "none" => (rret' = ErrOf(LastReply) /\ rret' # "nil")]_vars

C22_Witness ==
  /\ use = "annotate"
  /\ qpc = "fatal"
  /\ replies = <<500, 404>>
  /\ Len(sent) = 2
  /\ slept = 1
  /\ rret = "ErrorResponse404"

\* C29: the change UUID of a pipeline upload is generated once, before the
\* first attempt, and every request of the retry loop carries that UUID,
\* the same pipeline and the same replace flag.
C29_SameChangeEveryAttempt ==
  [][use = "pipeline" =>
       /\ uuid # 0 => (uuid' = uuid /\ uuids' = uuids)
       /\ \A i \in 1..Len(sent') :
            /\ uuid' # 0
            /\ sent'[i] = [UUID |-> uuid', Pipeline |-> Pipeline,
                           Replace |-> Replace]]_vars

C29_Witness ==
  /\ use = "pipeline"
  /\ Len(sent) = 5
  /\ replies = <<500, 0, 500, 500, 200>>
  /\ uuid = 2
  /\ \A i \in 1..5 : sent[i].UUID = 2 /\ sent[i].Replace

(***************************************************************************)
(* ArtifactUploader.Collect and build (artifact_uploader.go:61-166)        *)
(***************************************************************************)
\* A path or a pattern is a sequence of its elements; an absolute one starts
\* with the element "/".  a.Paths is a sequence of such elements, of ";"
\* (ArtifactPathDelimiter) and of " " (a white-space character).
ArtifactPathDelimiter == ";"
Space == " "

\* The file system (POSIX): the working directory is /w.
Root == <<"/">>
WorkDir == <<"/", "w">>
Dirs == {Root, WorkDir, <<"/", "w", "d">>, <<"/", "o">>}
RegularFiles ==
  {<<"/", "w", "a.txt">>, <<"/", "w", "d", "b.txt">>, <<"/", "o", "c.txt">>}
\* Every entry below the root, in the order a walk of the tree visits them.
Tree ==
  << <<"/", "o">>, <<"/", "o", "c.txt">>, <<"/", "w">>, <<"/", "w", "a.txt">>,
     <<"/", "w", "d">>, <<"/", "w", "d", "b.txt">> >>
\* The bytes that can be read from a path: those of a regular file, none
\* from a directory.
Content(f) ==
  CASE f = <<"/", "w", "a.txt">> -> <<"a", "a">>
    [] f = <<"/", "w", "d", "b.txt">> -> <<"b", "b">>
    [] f = <<"/", "o", "c.txt">> -> <<"c">>
    [] OTHER -> <<>>
\* A SHA-1 checksum, as a value that determines the bytes hashed.
Sha1(bytes) == <<"sha1", bytes>>

\* The values of a.Paths looked at.
PathSpecs ==
  { <<>>,
    <<"*.txt">>,
    <<Space, "*.txt", Space, ";", ";", "d", ";", "**", "*.txt">>,
    <<"/", "w", "d", "*.txt", ";", "*.txt">>,
    <<"*.txt", ";", "/", "o", "c.txt">>,
    <<"/", "w", ";", Space, "**", "*.txt">>,
    <<"nope.txt", ";", "*.txt">>,
    <<"*.log", ";", "d", "b.txt", ";", Space>>,
    <<"*.txt", ";", "[">> }

\* strings.Split(s, sep): the pieces between the separators.
RECURSIVE Split(_, _)
Split(str, sep) ==
  IF \A i \in 1..Len(str) : str[i] # sep
  THEN <<str>>
  ELSE LET k == CHOOSE i \in 1..Len(str) :
                  str[i] = sep /\ \A j \in 1..(i - 1) : str[j] # sep
       IN <<SubSeq(str, 1, k - 1)>> \o Split(SubSeq(str, k + 1, Len(str)), sep)

\* strings.TrimSpace: leading and trailing white space removed.
RECURSIVE TrimSpace(_)
TrimSpace(str) ==
  IF str = <<>> THEN str
  ELSE IF Head(str) = Space THEN TrimSpace(Tail(str))
  ELSE IF str[Len(str)] = Space THEN TrimSpace(SubSeq(str, 1, Len(str) - 1))
  ELSE str

\* filepath.IsAbs (POSIX).
IsAbs(path) == path # <<>> /\ Head(path) = "/"

\* filepath.Abs: a relative path is joined to the working directory of the
\* process.
Abs(path) == IF IsAbs(path) THEN path ELSE WorkDir \o path

\* isDir that never finds a directory.
isDirNever(path) == FALSE

\* Lines 61-67: os.Stat and IsDir; false when Stat fails.
isDir(path) == path \in Dirs

\* filepath.Rel(base, targ) for two absolute paths: the elements of targ
\* after the common prefix, preceded by one ".." for each element of base
\* after it.
Rel(base, targ) ==
  LET Common(k) == k <= Len(base) /\ k <= Len(targ)
                   /\ \A i \in 1..k : base[i] = targ[i]
      k == CHOOSE n \in 0..Len(base) : Common(n) /\ ~Common(n + 1)
      r == [i \in 1..(Len(base) - k) |-> ".."] \o SubSeq(targ, k + 1, Len(targ))
  IN IF r = <<>> THEN <<".">> ELSE r

\* zglob: the elements of a pattern that are not literal names.
Meta == {"**", "*.txt", "*.log"}
HasMeta(pat) == \E i \in 1..Len(pat) : pat[i] \in Meta
NameMatch(pe, name) ==
  \/ pe = name /\ pe \notin Meta
  \/ pe = "*.txt" /\ name \in {"a.txt", "b.txt", "c.txt"}
\* "**" stands for any number of directories, even none.
RECURSIVE Match(_, _)
Match(pat, path) ==
  IF pat = <<>> THEN path = <<>>
  ELSE IF Head(pat) = "**"
       THEN Match(Tail(pat), path) \/ (path # <<>> /\ Match(pat, Tail(path)))
  ELSE /\ path # <<>>
       /\ NameMatch(Head(pat), Head(path))
       /\ Match(Tail(pat), Tail(path))

UnderWorkDir(f) ==
  Len(f) > Len(WorkDir) /\ SubSeq(f, 1, Len(WorkDir)) = WorkDir
\* The paths a pattern is tried on: every entry for an absolute pattern, the
\* entries below the working directory, relative to it, for a relative one.
Candidates(pat) ==
  IF IsAbs(pat) THEN Tree
  ELSE LET below == SelectSeq(Tree, UnderWorkDir)
       IN [i \in 1..Len(below) |->
             SubSeq(below[i], Len(WorkDir) + 1, Len(below[i]))]

\* zglob.Glob: a pattern without wildcards is returned as it is when the
\* path exists and gives os.ErrNotExist when it does not; a pattern with
\* wildcards gives its matches in walk order; a malformed pattern gives
\* another error.
Glob(pat) ==
  IF \E i \in 1..Len(pat) : pat[i] = "["
  THEN [err |-> "GlobErr", files |-> <<>>]
  ELSE IF ~HasMeta(pat)
  THEN IF Abs(pat) \in Dirs \cup RegularFiles
       THEN [err |-> "nil", files |-> <<pat>>]
       ELSE [err |-> "ErrNotExist", files |-> <<>>]
  ELSE LET Hit(c) == Match(pat, c)
       IN [err |-> "nil", files |-> SelectSeq(Candidates(pat), Hit)]

\* The test of line 86 that never holds.
IsNotExistNever(e) == FALSE

\* Line 86: err == os.ErrNotExist.
IsNotExist(e) == e = "ErrNotExist"

\* Lines 145-166, after os.Open and file.Stat succeeded: io.Copy(hash, file)
\* hashes the n bytes it could read, its error is dropped, and the artifact
\* is made with the size from Stat.
build(path, absolutePath, glob, n) ==
  [Path |-> path,
   AbsolutePath |-> absolutePath,
   GlobPath |-> glob,
   FileSize |-> Len(Content(absolutePath)),
   Sha1Sum |-> Sha1(SubSeq(Content(absolutePath), 1, n))]

InitCollect ==
  /\ Paths \in PathSpecs
  /\ wd = <<>>
  /\ rest = <<>>
  /\ globPath = <<>>
  /\ files = <<>>
  /\ artifacts = <<>>
  /\ cret = "none"
  /\ gpc = "getwd"

collectFrame == <<pvars, uvars, evars, lvars, rvars>>

\* Lines 70-75: os.Getwd, whose error is returned, and the split of a.Paths.
CollectGetwd ==
  /\ gpc = "getwd"
  /\ \E ok \in BOOLEAN :
       IF ok
       THEN /\ wd' = WorkDir
            /\ rest' = Split(Paths, ArtifactPathDelimiter)
            /\ gpc' = "glob"
            /\ UNCHANGED cret
       ELSE /\ cret' = "GetwdErr"
            /\ gpc' = "returned"
            /\ UNCHANGED <<wd, rest>>
  /\ UNCHANGED <<Paths, globPath, files, artifacts>>
  /\ UNCHANGED collectFrame

\* Lines 75-91, one round of the outer loop up to the inner loop: the entry
\* is trimmed; an empty one is skipped; zglob.Glob is called; os.ErrNotExist
\* skips the pattern, another error is returned without a list.
CollectGlob ==
  /\ gpc = "glob"
  /\ rest # <<>>
  /\ rest' = Tail(rest)
  /\ LET g == TrimSpace(Head(rest))
         r == Glob(g)
     IN /\ globPath' = g
        /\ IF g = <<>> \/ IsNotExist(r.err)
           THEN /\ gpc' = "glob"
                /\ UNCHANGED <<files, artifacts, cret>>
           ELSE IF r.err # "nil"
           THEN /\ artifacts' = <<>>
                /\ cret' = r.err
                /\ gpc' = "returned"
                /\ UNCHANGED files
           ELSE /\ files' = r.files
                /\ gpc' = IF r.files = <<>> THEN "glob" ELSE "file"
                /\ UNCHANGED <<artifacts, cret>>
  /\ UNCHANGED <<Paths, wd>>
  /\ UNCHANGED collectFrame

\* Lines 94-131 and 137-166, one round of the inner loop: filepath.Abs; a
\* directory is skipped; for an absolute pattern wd is set to the root;
\* filepath.Rel; build opens the file, reads its size and hashes what it
\* can read.  An error of Abs, of os.Open or of file.Stat is returned without
\* a list.
CollectFile ==
  /\ gpc = "file"
  /\ files # <<>>
  /\ files' = Tail(files)
  /\ LET file == Head(files)
         absolutePath == Abs(file)
         base == IF IsAbs(globPath) THEN Root ELSE wd
     IN IF isDir(absolutePath)
        THEN /\ gpc' = IF Tail(files) = <<>> THEN "glob" ELSE "file"
             /\ UNCHANGED <<wd, artifacts, cret>>
        ELSE \E failure \in {"none", "AbsErr", "OpenErr", "StatErr"} :
               IF failure = "AbsErr" /\ ~IsAbs(file)
               THEN /\ artifacts' = <<>>
                    /\ cret' = failure
                    /\ gpc' = "returned"
                    /\ UNCHANGED wd
               ELSE IF failure \in {"OpenErr", "StatErr"}
               THEN /\ wd' = base
                    /\ artifacts' = <<>>
                    /\ cret' = failure
                    /\ gpc' = "returned"
               ELSE /\ failure = "none"
                    /\ wd' = base
                    /\ \E n \in 0..Len(Content(absolutePath)) :
                         artifacts' =
                           Append(artifacts,
                                  build(Rel(base, absolutePath), absolutePath,
                                        globPath, n))
                    /\ gpc' = IF Tail(files) = <<>> THEN "glob" ELSE "file"
                    /\ UNCHANGED cret
  /\ UNCHANGED <<Paths, rest, globPath>>
  /\ UNCHANGED collectFrame

\* Line 134: return artifacts, nil.
CollectReturn ==
  /\ gpc = "glob"
  /\ rest = <<>>
  /\ cret' = "nil"
  /\ gpc' = "returned"
  /\ UNCHANGED <<Paths, wd, rest, globPath, files, artifacts>>
  /\ UNCHANGED collectFrame

NextCollect ==
  \/ CollectGetwd
  \/ CollectGlob
  \/ CollectFile
  \/ CollectReturn

InitCollectOnly ==
  InitCollect /\ InitProcIdle /\ InitUploadIdle /\ InitRetryIdle
SpecCollect == InitCollectOnly /\ [][NextCollect]_vars

(***************************************************************************)
(* Properties of the artifact collection                                   *)
(***************************************************************************)
CollectOk == gpc = "returned" /\ cret = "nil"

\* C23: every artifact's path is the file's path relative to the working
\* directory when the pattern that matched it is relative, and relative to
\* the root when that pattern is absolute, whatever patterns came before.
C23_PathRelativeToPatternBase ==
  CollectOk =>
    \A i \in 1..Len(artifacts) :
      artifacts[i].Path =
        Rel(IF IsAbs(artifacts[i].GlobPath) THEN Root ELSE WorkDir,
            artifacts[i].AbsolutePath)

\* C24: a Collect that returns an error returns no list, and every artifact
\* of a list that Collect returns carries the checksum of the whole content
\* of its file: a file that could not be read to its end is in no list.
C24_ChecksumOfWholeFile ==
  /\ (gpc = "returned" /\ cret # "nil") => artifacts = <<>>
  /\ CollectOk =>
       \A i \in 1..Len(artifacts) :
         artifacts[i].Sha1Sum = Sha1(Content(artifacts[i].AbsolutePath))

\* The pairs (pattern, file) of a path specification: for each entry that
\* is not empty once trimmed, in order, each match that is not a directory,
\* in match order.
RECURSIVE Pairs(_)
Pairs(entries) ==
  IF entries = <<>> THEN <<>>
  ELSE LET g == TrimSpace(Head(entries))
           NotDir(f) == Abs(f) \notin Dirs
           m == IF g = <<>> \/ Glob(g).err # "nil" THEN <<>>
                ELSE SelectSeq(Glob(g).files, NotDir)
       IN [i \in 1..Len(m) |-> <<g, Abs(m[i])>>] \o Pairs(Tail(entries))

\* C25: a Collect that returns a list returns one artifact for each pair of
\* a non-empty trimmed pattern and a non-directory file it matches, ordered
\* by pattern and then by match.
C25_OneArtifactPerMatch ==
  CollectOk =>
    [i \in 1..Len(artifacts) |->
       <<artifacts[i].GlobPath, artifacts[i].AbsolutePath>>]
      = Pairs(Split(Paths, ArtifactPathDelimiter))

C25_Witness ==
  /\ CollectOk
  /\ Paths = <<Space, "*.txt", Space, ";", ";", "d", ";", "**", "*.txt">>
  /\ Len(artifacts) = 3
  /\ artifacts[1].AbsolutePath = artifacts[2].AbsolutePath
  /\ artifacts[1].GlobPath = <<"*.txt">>
  /\ artifacts[2].GlobPath = <<"**", "*.txt">>

\* The pattern matches nothing: the path does not exist, or no entry fits
\* the wildcards.
NoMatch(g) ==
  /\ g # <<>>
  /\ \/ Glob(g).err = "ErrNotExist"
     \/ Glob(g).err = "nil" /\ Glob(g).files = <<>>

\* C26: the round of a pattern that matches nothing changes neither the list
\* nor the result and goes on to the next entry; no Collect returns an error
\* for such a pattern.
C26_NoMatchIsSkipped ==
  [][/\ (gpc = "glob" /\ rest # <<>> /\ NoMatch(TrimSpace(Head(rest)))) =>
          /\ artifacts' = artifacts
          /\ cret' = "none"
          /\ gpc' = "glob"
          /\ rest' = Tail(rest)
     /\ cret' # "ErrNotExist"]_vars

C26_Witness ==
  /\ CollectOk
  /\ Paths = <<"nope.txt", ";", "*.txt">>
  /\ Len(artifacts) = 1
  /\ artifacts[1].GlobPath = <<"*.txt">>

====
